---- MODULE Spec2Model ----
(***************************************************************************)
(* Model of the schema-driven form engine of form-renderer-poc:            *)
(* the JSONLogic evaluator (engine/jsonlogic), the dependency graph        *)
(* (engine/deps.ts) and the snapshot machine (engine/engine.ts).           *)
(*                                                                         *)
(* JavaScript values are tagged records, so that values of different       *)
(* types can be compared.  A dotted path "globals.minAge" is the sequence  *)
(* of its segments <<"globals", "minAge">>.  JavaScript objects that the   *)
(* engine shares between snapshots (the values / ui.sections / ui.fields / *)
(* errors maps and the ui entry objects) live in a heap of references, so  *)
(* that aliasing and in-place writes are visible.                          *)
(***************************************************************************)
EXTENDS Integers, Sequences, FiniteSets, TLC

(***************************************************************************)
(* Bounds of the model.                                                    *)
(***************************************************************************)
\* numbers a user can type into a number field: 0 .. MaxNum
MaxNum == 2

(***************************************************************************)
(* JavaScript values.                                                      *)
(***************************************************************************)
Undef == [t |-> "undef"]
Null == [t |-> "null"]
Num(n) == [t |-> "num", n |-> n]
Str(s) == [t |-> "str", s |-> s]
Bool(b) == [t |-> "bool", b |-> b]
\* the only array value the engine itself creates is the empty array
EmptyArr == [t |-> "arr"]
\* the outcome of an expression whose evaluation throws (a TypeError)
Throw == [t |-> "throw"]

\* JavaScript truthiness (if (x), !x, x || y)
Truthy(v) ==
  CASE v.t = "undef" -> FALSE
    [] v.t = "null" -> FALSE
    [] v.t = "bool" -> v.b
    [] v.t = "num" -> v.n # 0
    [] v.t = "str" -> v.s # ""
    [] OTHER -> TRUE

\* a === b on primitives; two arrays are never the same object here
StrictEq(a, b) == a.t # "arr" /\ a = b

\* the strings of the model that Number() converts to a number
NumericStrings == {"", "0", "1", "2", "18"}

StrToNum(s) ==
  CASE s = "" -> 0
    [] s = "0" -> 0
    [] s = "1" -> 1
    [] s = "2" -> 2
    [] s = "18" -> 18
    [] OTHER -> 0

\* isNaN(Number(v))
IsNaN(v) ==
  CASE v.t = "undef" -> TRUE
    [] v.t = "str" -> v.s \notin NumericStrings
    [] OTHER -> FALSE

\* Number(v), for a v with ~IsNaN(v)
ToNumber(v) ==
  CASE v.t = "num" -> v.n
    [] v.t = "bool" -> (IF v.b THEN 1 ELSE 0)
    [] v.t = "str" -> StrToNum(v.s)
    [] OTHER -> 0

\* the order of the model's strings under JavaScript's < on strings
StrRank(s) ==
  CASE s = "" -> 0
    [] s = "0" -> 1
    [] s = "1" -> 2
    [] s = "18" -> 3
    [] s = "2" -> 4
    [] s = "bad" -> 5
    [] s = "x" -> 6
    [] OTHER -> 7

Compare(op, x, y) ==
  CASE op = ">" -> x > y
    [] op = ">=" -> x >= y
    [] op = "<" -> x < y
    [] OTHER -> x <= y

(***************************************************************************)
(* Paths.                                                                  *)
(***************************************************************************)
\* path.startsWith('globals.')
IsGlobalsPath(p) == Len(p) >= 2 /\ p[1] = "globals"
\* path.startsWith('params.')
IsParamsPath(p) == Len(p) >= 2 /\ p[1] = "params"
\* fieldPath.split('.').pop() || fieldPath
LastSegment(p) == p[Len(p)]

\* a path that is not a string: its startsWith and split throw a TypeError
BadPath == <<>>

\* obj[key] of a map whose values are primitives
Lookup(obj, key) == IF key \in DOMAIN obj THEN obj[key] ELSE Undef

\* deepGet(obj, path): the first key is looked up in the map, and every
\* further key is a property of a primitive, which is undefined
deepGet(obj, path) ==
  IF Len(path) = 1 THEN Lookup(obj, path[1]) ELSE Undef

(***************************************************************************)
(* JSONLogic expressions.  An expression is a literal, a variable          *)
(* reference, a JavaScript array (in operand position) or an operator node *)
(* {op: operands}; NoExpr is an absent (undefined) expression and BadVar a *)
(* node {var: v} whose v is not a string.                                  *)
(***************************************************************************)
NoExpr == [e |-> "none"]
Lit(v) == [e |-> "lit", v |-> v]
Var(p) == [e |-> "var", p |-> p]
BadVar == [e |-> "badvar"]
List(items) == [e |-> "list", items |-> items]
Op(o, x) == [e |-> "op", o |-> o, x |-> x]

\* haystack.includes(needle) on the strings of the model
StrIncludes(h, n) == n = "" \/ n = h \/ (h = "18" /\ n = "1")
\* str.startsWith(prefix) on the strings of the model
StrStartsWith(s, q) == q = "" \/ q = s \/ (s = "18" /\ q = "1")
\* str.endsWith(suffix) on the strings of the model
StrEndsWith(s, q) == q = "" \/ q = s
\* str.length on the strings of the model
StrLen(s) ==
  CASE s = "" -> 0
    [] s = "18" -> 2
    [] s = "bad" -> 3
    [] OTHER -> 1

RECURSIVE evaluate(_, _)

\* operands.map(op => evaluate(op, context)) of a two-element array; Throw
\* when an operand throws
EvalPair(operands, context) ==
  LET a == evaluate(operands.items[1], context)
      b == evaluate(operands.items[2], context)
  IN IF a = Throw \/ b = Throw THEN Throw ELSE [t |-> "pair", a |-> a, b |-> b]

IsPair(operands) == operands.e = "list" /\ Len(operands.items) = 2

handleEquals(operands, context) ==
  IF ~IsPair(operands) THEN Bool(FALSE)
  ELSE LET ab == EvalPair(operands, context)
       IN IF ab = Throw THEN Throw ELSE Bool(StrictEq(ab.a, ab.b))

\* compareFn(a, b) on operands of which one does not convert to a number:
\* two strings compare as strings, anything else compares false
PrimitiveCompare(op, a, b) ==
  LET pa == IF a.t = "arr" THEN Str("") ELSE a
      pb == IF b.t = "arr" THEN Str("") ELSE b
  IN IF pa.t = "str" /\ pb.t = "str"
     THEN Compare(op, StrRank(pa.s), StrRank(pb.s))
     ELSE FALSE

\* handleComparison as compareFn(a, b) alone, without Number(a), Number(b)
handleComparisonUnconverted(operands, context, op) ==
  IF ~IsPair(operands) THEN Bool(FALSE)
  ELSE LET ab == EvalPair(operands, context)
       IN IF ab = Throw THEN Throw
          ELSE IF ab.a.t \in {"str", "arr"} /\ ab.b.t \in {"str", "arr"}
               THEN Bool(PrimitiveCompare(op, ab.a, ab.b))
          ELSE IF ~IsNaN(ab.a) /\ ~IsNaN(ab.b)
               THEN Bool(Compare(op, ToNumber(ab.a), ToNumber(ab.b)))
               ELSE Bool(FALSE)

handleComparison(operands, context, op) ==
  IF ~IsPair(operands) THEN Bool(FALSE)
  ELSE LET ab == EvalPair(operands, context)
       IN IF ab = Throw THEN Throw
          ELSE IF ~IsNaN(ab.a) /\ ~IsNaN(ab.b)
               THEN Bool(Compare(op, ToNumber(ab.a), ToNumber(ab.b)))
               ELSE Bool(PrimitiveCompare(op, ab.a, ab.b))

RECURSIVE AndLoop(_, _, _)
AndLoop(items, i, context) ==
  IF i > Len(items) THEN Bool(TRUE)
  ELSE LET v == evaluate(items[i], context)
       IN IF v = Throw THEN Throw
          ELSE IF ~Truthy(v) THEN Bool(FALSE)
          ELSE AndLoop(items, i + 1, context)

handleAnd(operands, context) ==
  IF operands.e # "list"
  THEN LET v == evaluate(operands, context)
       IN IF v = Throw THEN Throw ELSE Bool(Truthy(v))
  ELSE AndLoop(operands.items, 1, context)

RECURSIVE OrLoop(_, _, _)
OrLoop(items, i, context) ==
  IF i > Len(items) THEN Bool(FALSE)
  ELSE LET v == evaluate(items[i], context)
       IN IF v = Throw THEN Throw
          ELSE IF Truthy(v) THEN Bool(TRUE)
          ELSE OrLoop(items, i + 1, context)

handleOr(operands, context) ==
  IF operands.e # "list"
  THEN LET v == evaluate(operands, context)
       IN IF v = Throw THEN Throw ELSE Bool(Truthy(v))
  ELSE OrLoop(operands.items, 1, context)

\* needle in haystack: the only array of the model is empty
handleIn(operands, context) ==
  IF ~IsPair(operands) THEN Bool(FALSE)
  ELSE LET ab == EvalPair(operands, context)
       IN IF ab = Throw THEN Throw
          ELSE IF ab.b.t = "arr" THEN Bool(FALSE)
          ELSE IF ab.b.t = "str" /\ ab.a.t = "str"
               THEN Bool(StrIncludes(ab.b.s, ab.a.s))
               ELSE Bool(FALSE)

handleEmpty(operands, context) ==
  LET value == evaluate(operands, context)
  IN IF value = Throw THEN Throw
     ELSE Bool(value.t \in {"null", "undef", "arr"} \/ value = Str(""))

handleContains(operands, context) ==
  IF ~IsPair(operands) THEN Bool(FALSE)
  ELSE LET ab == EvalPair(operands, context)
       IN IF ab = Throw THEN Throw
          ELSE IF ab.a.t = "arr" THEN Bool(FALSE)
          ELSE IF ab.a.t = "str" /\ ab.b.t = "str"
               THEN Bool(StrIncludes(ab.a.s, ab.b.s))
               ELSE Bool(FALSE)

handleStartsWith(operands, context) ==
  IF ~IsPair(operands) THEN Bool(FALSE)
  ELSE LET ab == EvalPair(operands, context)
       IN IF ab = Throw THEN Throw
          ELSE Bool(ab.a.t = "str" /\ ab.b.t = "str"
                    /\ StrStartsWith(ab.a.s, ab.b.s))

handleEndsWith(operands, context) ==
  IF ~IsPair(operands) THEN Bool(FALSE)
  ELSE LET ab == EvalPair(operands, context)
       IN IF ab = Throw THEN Throw
          ELSE Bool(ab.a.t = "str" /\ ab.b.t = "str"
                    /\ StrEndsWith(ab.a.s, ab.b.s))

handleCount(operands, context) ==
  LET value == evaluate(operands, context)
  IN CASE value = Throw -> Throw
       [] value.t \in {"null", "undef", "arr"} -> Num(0)
       [] value.t = "str" -> Num(StrLen(value.s))
       [] OTHER -> Num(IF Truthy(value) THEN 1 ELSE 0)

handleIf(operands, context) ==
  IF operands.e # "list" \/ Len(operands.items) < 2 THEN Undef
  ELSE LET c == evaluate(operands.items[1], context)
       IN IF c = Throw THEN Throw
          ELSE IF Truthy(c) THEN evaluate(operands.items[2], context)
          ELSE IF Len(operands.items) >= 3
               THEN evaluate(operands.items[3], context)
               ELSE Undef

\* evaluateVar that looks an unprefixed path up in globals before data
evaluateVarGlobalsFirst(path, context) ==
  IF IsGlobalsPath(path) THEN deepGet(context.globals, Tail(path))
  ELSE IF IsParamsPath(path)
       THEN (IF context.hasParams THEN deepGet(context.params, Tail(path))
             ELSE Undef)
  ELSE IF deepGet(context.globals, path) # Undef
       THEN deepGet(context.globals, path)
  ELSE IF deepGet(context.data, path) # Undef THEN deepGet(context.data, path)
  ELSE IF context.hasParams THEN deepGet(context.params, path)
  ELSE Undef

\* the variable reference {var: path}; context.params is absent (undefined)
\* when context.hasParams is FALSE
evaluateVar(path, context) ==
  IF IsGlobalsPath(path) THEN deepGet(context.globals, Tail(path))
  ELSE IF IsParamsPath(path)
       THEN (IF context.hasParams THEN deepGet(context.params, Tail(path))
             ELSE Undef)
  ELSE IF deepGet(context.data, path) # Undef THEN deepGet(context.data, path)
  ELSE IF deepGet(context.globals, path) # Undef
       THEN deepGet(context.globals, path)
  ELSE IF context.hasParams THEN deepGet(context.params, path)
  ELSE Undef

\* !x of an evaluated operand
Negate(v) == IF v = Throw THEN Throw ELSE Bool(~Truthy(v))

evaluate(expr, context) ==
  CASE expr.e = "none" -> Undef
    [] expr.e = "lit" -> expr.v
    [] expr.e = "var" -> evaluateVar(expr.p, context)
    [] expr.e = "badvar" -> Throw
    \* an array has no 'var': an empty one is returned as it is, and the
    \* first entry of a non-empty one is taken for the unknown operator "0"
    [] expr.e = "list" ->
         (IF Len(expr.items) = 0 THEN EmptyArr ELSE Bool(FALSE))
    [] OTHER ->
         CASE expr.o = "==" -> handleEquals(expr.x, context)
           [] expr.o = "!=" -> Negate(handleEquals(expr.x, context))
           [] expr.o \in {">", ">=", "<", "<="} ->
                handleComparison(expr.x, context, expr.o)
           [] expr.o = "and" -> handleAnd(expr.x, context)
           [] expr.o = "or" -> handleOr(expr.x, context)
           [] expr.o = "not" -> Negate(evaluate(expr.x, context))
           [] expr.o = "in" -> handleIn(expr.x, context)
           [] expr.o = "empty" -> handleEmpty(expr.x, context)
           [] expr.o = "contains" -> handleContains(expr.x, context)
           [] expr.o = "startsWith" -> handleStartsWith(expr.x, context)
           [] expr.o = "endsWith" -> handleEndsWith(expr.x, context)
           [] expr.o = "count" -> handleCount(expr.x, context)
           [] expr.o = "if" -> handleIf(expr.x, context)
           [] OTHER -> Bool(FALSE)

\* [...new Set(paths)]: the first occurrence of each element, in order
RECURSIVE Dedupe(_)
Dedupe(seq) ==
  IF Len(seq) = 0 THEN <<>>
  ELSE LET init == Dedupe(SubSeq(seq, 1, Len(seq) - 1))
           last == seq[Len(seq)]
       IN IF \E i \in 1..Len(init) : init[i] = last THEN init
          ELSE Append(init, last)

RECURSIVE traverse(_)
RECURSIVE traverseAll(_, _)
traverseAll(items, i) ==
  IF i > Len(items) THEN <<>>
  ELSE traverse(items[i]) \o traverseAll(items, i + 1)

\* the paths pushed by traverse(value), in order; a badvar node pushes its
\* non-string var, the path BadPath
traverse(expr) ==
  CASE expr.e = "var" -> <<expr.p>>
    [] expr.e = "badvar" -> <<BadPath>>
    [] expr.e = "list" -> traverseAll(expr.items, 1)
    [] expr.e = "op" -> traverse(expr.x)
    [] OTHER -> <<>>

extractVariablePaths(expr) == Dedupe(traverse(expr))

(***************************************************************************)
(* Schema.  A rule's then / else is the list of its actions (a single      *)
(* action is a one-element list, an absent branch the empty list).         *)
(* A section's rows is the list of the field ids its rows reference.       *)
(***************************************************************************)
Action(type, target, value) ==
  [type |-> type, target |-> target, value |-> value, optionValue |-> Undef]
\* a DISABLE_OPTION / ENABLE_OPTION action {type, target, optionValue}
OptionAction(type, target, optionValue) ==
  [type |-> type, target |-> target, value |-> Undef, optionValue |-> optionValue]
Rule(id, when, then, else) == [id |-> id, when |-> when, then |-> then, else |-> else]
Field(id, type, defaultValue, disabled, visibilityRule, rules) ==
  [id |-> id, type |-> type, defaultValue |-> defaultValue,
   disabled |-> disabled, visibilityRule |-> visibilityRule, rules |-> rules,
   options |-> Undef, validators |-> <<>>]
\* a validator {type, when, value}
Validator(type, when, value) == [type |-> type, when |-> when, value |-> value]
\* a field with validators
WithValidators(field, validators) == [field EXCEPT !.validators = validators]
\* a list of static options, named by a token
Options(name) == [t |-> "opts", o |-> name]
\* a field with options {source: 'STATIC', options}
WithOptions(field, options) == [field EXCEPT !.options = options]
SubSection(id, visibilityRule, fields) ==
  [id |-> id, visibilityRule |-> visibilityRule, fields |-> fields]
Section(id, disabled, visibilityRule, fields, rows, subsections) ==
  [id |-> id, disabled |-> disabled, visibilityRule |-> visibilityRule,
   fields |-> fields, rows |-> rows, subsections |-> subsections]

\* if (owner.visibilityRule): the rule is declared and is not a falsy literal
Declared(expr) == expr.e # "none" /\ ~(expr.e = "lit" /\ ~Truthy(expr.v))

EmptyMap == [k \in {} |-> Undef]
\* obj[key] = value on a map
Put(obj, key, value) == (key :> value) @@ obj
\* delete obj[key]
Delete(obj, key) == [k \in DOMAIN obj \ {key} |-> obj[k]]

RECURSIVE Flatten(_)
Flatten(seqs) ==
  IF Len(seqs) = 0 THEN <<>> ELSE Head(seqs) \o Flatten(Tail(seqs))

\* the elements of a sequence
Range(seq) == {seq[i] : i \in 1..Len(seq)}

(***************************************************************************)
(* deps.ts: the dependency graph.                                          *)
(***************************************************************************)
\* section.fields followed by the fields of every subsection
getFieldsFromSection(section) ==
  section.fields
    \o Flatten([i \in 1..Len(section.subsections) |-> section.subsections[i].fields])

sectionVisibilityRule(section) ==
  Rule("section_" \o section.id \o "_visibility", section.visibilityRule,
       <<Action("SHOW_SECTION", section.id, Bool(TRUE))>>,
       <<Action("HIDE_SECTION", section.id, Bool(FALSE))>>)

subsectionVisibilityRule(subsection) ==
  Rule("subsection_" \o subsection.id \o "_visibility", subsection.visibilityRule,
       <<Action("SHOW_SECTION", "subsection_" \o subsection.id, Bool(TRUE))>>,
       <<Action("HIDE_SECTION", "subsection_" \o subsection.id, Bool(FALSE))>>)

fieldVisibilityRule(field) ==
  Rule("field_" \o field.id \o "_visibility", field.visibilityRule,
       <<Action("SHOW_FIELD", field.id, Bool(TRUE))>>,
       <<Action("HIDE_FIELD", field.id, Bool(FALSE))>>)

\* the rules of one field in the order buildDependencyGraph registers them;
\* skip tells whether the reads under globals. / params. are left out of
\* byField (they are not for a field's visibility rule)
FieldRuleEntries(field) ==
  (IF Declared(field.visibilityRule)
   THEN <<[rule |-> fieldVisibilityRule(field), skip |-> FALSE]>>
   ELSE <<>>)
  \o [i \in 1..Len(field.rules) |-> [rule |-> field.rules[i], skip |-> TRUE]]

SectionRuleEntries(section) ==
  (IF Declared(section.visibilityRule)
   THEN <<[rule |-> sectionVisibilityRule(section), skip |-> TRUE]>>
   ELSE <<>>)
  \o Flatten([i \in 1..Len(section.subsections) |->
       IF Declared(section.subsections[i].visibilityRule)
       THEN <<[rule |-> subsectionVisibilityRule(section.subsections[i]),
               skip |-> TRUE]>>
       ELSE <<>>])
  \o Flatten([i \in 1..Len(getFieldsFromSection(section)) |->
       FieldRuleEntries(getFieldsFromSection(section)[i])])

RuleEntries(schema) ==
  [i \in 1..Len(schema.formRules) |-> [rule |-> schema.formRules[i], skip |-> TRUE]]
  \o Flatten([i \in 1..Len(schema.sections) |-> SectionRuleEntries(schema.sections[i])])

\* reads.forEach(fieldPath => ... byField[fieldId].push(ruleId)); a path that
\* is not a string throws
RECURSIVE indexReads(_, _, _, _, _)
indexReads(graph, ruleId, reads, skip, i) ==
  IF i > Len(reads) \/ graph.threw THEN graph
  ELSE IF reads[i] = BadPath THEN [graph EXCEPT !.threw = TRUE]
  ELSE IF skip /\ (IsGlobalsPath(reads[i]) \/ IsParamsPath(reads[i]))
       THEN indexReads(graph, ruleId, reads, skip, i + 1)
  ELSE LET fieldId == LastSegment(reads[i])
           old == IF fieldId \in DOMAIN graph.byField
                  THEN graph.byField[fieldId] ELSE <<>>
       IN indexReads([graph EXCEPT !.byField = Put(@, fieldId, Append(old, ruleId))],
                     ruleId, reads, skip, i + 1)

\* rules[rule.id] = {rule, reads}, then the rule's reads are indexed;
\* ruleOrder is the key order of the rules object (Object.keys)
addRule(graph, entry) ==
  LET reads == extractVariablePaths(entry.rule.when)
      id == entry.rule.id
      g1 == [graph EXCEPT
               !.rules = Put(@, id, [rule |-> entry.rule, reads |-> reads]),
               !.ruleOrder = IF id \in DOMAIN graph.rules THEN @ ELSE Append(@, id)]
  IN indexReads(g1, id, reads, entry.skip, 1)

RECURSIVE addRules(_, _, _)
addRules(graph, entries, i) ==
  IF i > Len(entries) \/ graph.threw THEN graph
  ELSE addRules(addRule(graph, entries[i]), entries, i + 1)

\* the actions of rule.then followed by those of rule.else
AllActions(rule) == rule.then \o rule.else

\* the rules visit(ruleId) of detectCycles visits next, missing those the
\* else branch leads to
dependentsOfThen(rules, order, ruleId) ==
  LET actions == rules[ruleId].rule.then
  IN Flatten([j \in 1..Len(actions) |->
       IF actions[j].type = "SET_VALUE"
       THEN SelectSeq(order,
                      LAMBDA depRuleId :
                        \E i \in 1..Len(rules[depRuleId].reads) :
                          rules[depRuleId].reads[i] = <<actions[j].target>>)
       ELSE <<>>])

\* detectCycles: the rules visit(ruleId) visits next, one for each SET_VALUE
\* action of the rule and each rule whose reads include the action's target
dependents(rules, order, ruleId) ==
  LET actions == AllActions(rules[ruleId].rule)
  IN Flatten([j \in 1..Len(actions) |->
       IF actions[j].type = "SET_VALUE"
       THEN SelectSeq(order,
                      LAMBDA depRuleId :
                        \E i \in 1..Len(rules[depRuleId].reads) :
                          rules[depRuleId].reads[i] = <<actions[j].target>>)
       ELSE <<>>])

RECURSIVE cycleVisit(_, _, _, _, _)
RECURSIVE cycleVisitEach(_, _, _, _, _, _)

cycleVisitEach(st, next, j, path, rules, order) ==
  IF j > Len(next) THEN st
  ELSE cycleVisitEach(cycleVisit(st, next[j], path, rules, order),
                      next, j + 1, path, rules, order)

\* detectCycles: visit(ruleId, path)
cycleVisit(st, ruleId, path, rules, order) ==
  IF ruleId \in st.stack
  THEN LET cycleStart == CHOOSE i \in 1..Len(path) :
                           path[i] = ruleId /\ \A k \in 1..(i - 1) : path[k] # ruleId
       IN [st EXCEPT !.cycles =
             Append(@, SubSeq(path, cycleStart, Len(path)) \o <<ruleId>>)]
  ELSE IF ruleId \in st.visited THEN st
  ELSE LET st1 == [st EXCEPT !.visited = @ \cup {ruleId},
                             !.stack = @ \cup {ruleId}]
           st2 == cycleVisitEach(st1, dependents(rules, order, ruleId), 1,
                                 Append(path, ruleId), rules, order)
       IN [st2 EXCEPT !.stack = @ \ {ruleId}]

\* the cycles detectCycles returns; order is Object.keys(rules)
detectCycles(rules, order) ==
  cycleVisitEach([cycles |-> <<>>, visited |-> {}, stack |-> {}],
                 order, 1, <<>>, rules, order).cycles

\* cycles holds what the graph builder reports through console.warn
buildDependencyGraph(schema) ==
  LET graph == addRules([byField |-> EmptyMap, rules |-> EmptyMap,
                         ruleOrder |-> <<>>, threw |-> FALSE, cycles |-> <<>>],
                        RuleEntries(schema), 1)
  IN IF graph.threw THEN graph
     ELSE [graph EXCEPT !.cycles = detectCycles(graph.rules, graph.ruleOrder)]

getRulesForField(fieldId, deps) ==
  IF fieldId \in DOMAIN deps.byField THEN deps.byField[fieldId] ELSE <<>>

\* writesTo[field]: the rules of ruleIds with a SET_VALUE on field, one entry
\* per such action, in the order of ruleIds
writesTo(ruleIds, deps, fieldId) ==
  Flatten([i \in 1..Len(ruleIds) |->
    IF ruleIds[i] \in DOMAIN deps.rules
    THEN LET acts == AllActions(deps.rules[ruleIds[i]].rule)
         IN Flatten([j \in 1..Len(acts) |->
              IF acts[j].type = "SET_VALUE" /\ acts[j].target = fieldId
              THEN <<ruleIds[i]>> ELSE <<>>])
    ELSE <<>>])

RECURSIVE visit(_, _, _, _)
RECURSIVE visitWriters(_, _, _, _, _, _)
RECURSIVE visitReads(_, _, _, _, _, _)

\* writerRules.forEach(writerId => ...)
visitWriters(st, ruleId, writers, j, ruleIds, deps) ==
  IF j > Len(writers) THEN st
  ELSE LET w == writers[j]
           st1 == IF w # ruleId /\ w \in Range(ruleIds) /\ w \notin st.visited
                  THEN visit(st, w, ruleIds, deps) ELSE st
       IN visitWriters(st1, ruleId, writers, j + 1, ruleIds, deps)

\* ruleData.reads.forEach(fieldPath => ...)
visitReads(st, ruleId, reads, i, ruleIds, deps) ==
  IF i > Len(reads) THEN st
  ELSE IF IsGlobalsPath(reads[i]) \/ IsParamsPath(reads[i])
       THEN visitReads(st, ruleId, reads, i + 1, ruleIds, deps)
  ELSE LET st1 == visitWriters(st, ruleId,
                               writesTo(ruleIds, deps, LastSegment(reads[i])),
                               1, ruleIds, deps)
       IN visitReads(st1, ruleId, reads, i + 1, ruleIds, deps)

visit(st, ruleId, ruleIds, deps) ==
  IF ruleId \in st.visited THEN st
  ELSE LET st1 == [st EXCEPT !.visited = @ \cup {ruleId}]
           st2 == IF ruleId \in DOMAIN deps.rules
                  THEN visitReads(st1, ruleId, deps.rules[ruleId].reads, 1,
                                  ruleIds, deps)
                  ELSE st1
       IN [st2 EXCEPT !.sorted = Append(@, ruleId)]

RECURSIVE visitAll(_, _, _, _)
visitAll(st, ruleIds, i, deps) ==
  IF i > Len(ruleIds) THEN st
  ELSE visitAll(visit(st, ruleIds[i], ruleIds, deps), ruleIds, i + 1, deps)

\* sortRulesForEvaluation without its visited set: ruleIds as they are
sortRulesRepeating(ruleIds, deps) == ruleIds

\* sortRulesForEvaluation that returns the distinct ids in their given order
sortRulesUnsorted(ruleIds, deps) == Dedupe(ruleIds)

sortRulesForEvaluation(ruleIds, deps) ==
  visitAll([sorted |-> <<>>, visited |-> {}], ruleIds, 1, deps).sorted

(***************************************************************************)
(* engine.ts: seeding.                                                     *)
(***************************************************************************)
\* ids of seq in the order of their first occurrence
Ids(fields) == Dedupe([i \in 1..Len(fields) |-> fields[i].id])

\* fieldMap.get(id): the last field of section.fields declared under id
FieldOf(fields, id) ==
  fields[CHOOSE i \in 1..Len(fields) :
           fields[i].id = id /\ \A j \in (i + 1)..Len(fields) : fields[j].id # id]

\* the fields of section.fields (only), those referenced by rows first and
\* then the others; fields declared in subsections are not collected
getAllFieldsFromSection(section) ==
  LET known == Ids(section.fields)
      inRows == Dedupe(SelectSeq(section.rows, LAMBDA id : id \in Range(known)))
      rest == SelectSeq(known, LAMBDA id : id \notin Range(inRows))
      order == inRows \o rest
  IN [i \in 1..Len(order) |-> FieldOf(section.fields, order[i])]

SectionEntry(visible, disabled) == [visible |-> visible, disabled |-> disabled]
FieldEntry(visible, disabled, error, options) ==
  [visible |-> visible, disabled |-> disabled, error |-> error, options |-> options]

RECURSIVE seedFields(_, _, _)
seedFields(ui, fields, i) ==
  IF i > Len(fields) THEN ui
  ELSE seedFields(
         [ui EXCEPT !.fields =
            Put(@, fields[i].id,
                FieldEntry(TRUE, fields[i].disabled, Undef, fields[i].options))],
         fields, i + 1)

RECURSIVE seedSections(_, _, _)
seedSections(ui, sections, i) ==
  IF i > Len(sections) THEN ui
  ELSE LET ui1 == [ui EXCEPT !.sections =
                     Put(@, sections[i].id, SectionEntry(TRUE, sections[i].disabled))]
       IN seedSections(seedFields(ui1, getAllFieldsFromSection(sections[i]), 1),
                       sections, i + 1)

seedUI(schema) ==
  seedSections([sections |-> EmptyMap, fields |-> EmptyMap], schema.sections, 1)

\* String(v) of a global that a default-value template inserts
ToStr(v) ==
  CASE v.t = "str" -> v.s
    [] v.t = "num" -> ToString(v.n)
    [] OTHER -> "true"

\* a defaultValue "${globals.key}" is Tmpl(key)
Tmpl(key) == [t |-> "tmpl", key |-> key]

defaultFor(field, globals) ==
  IF field.defaultValue # Undef
  THEN IF field.defaultValue.t = "tmpl"
       THEN (IF Truthy(Lookup(globals, field.defaultValue.key))
             THEN Str(ToStr(Lookup(globals, field.defaultValue.key)))
             ELSE Str(""))
       ELSE field.defaultValue
  ELSE CASE field.type \in {"checkbox", "switch"} -> Bool(FALSE)
         [] field.type = "multi-select" -> EmptyArr
         [] field.type = "number" -> Null
         [] OTHER -> Str("")

RECURSIVE initialFields(_, _, _, _)
initialFields(values, fields, globals, i) ==
  IF i > Len(fields) THEN values
  ELSE initialFields(Put(values, fields[i].id, defaultFor(fields[i], globals)),
                     fields, globals, i + 1)

RECURSIVE initialSections(_, _, _, _)
initialSections(values, sections, globals, i) ==
  IF i > Len(sections) THEN values
  ELSE initialSections(
         initialFields(values, getAllFieldsFromSection(sections[i]), globals, 1),
         sections, globals, i + 1)

initialValues(schema, globals) ==
  initialSections(EmptyMap, schema.sections, globals, 1)

(***************************************************************************)
(* engine.ts: rule evaluation.                                             *)
(***************************************************************************)
\* the context without the snapshot's globals
ContextNoGlobals(values, globals) ==
  [data |-> values, globals |-> EmptyMap, params |-> EmptyMap, hasParams |-> FALSE]

Context(values, globals) ==
  [data |-> values, globals |-> globals, params |-> EmptyMap, hasParams |-> FALSE]

\* sortedRuleIds.forEach(ruleId => ...): acc collects the actions and, for
\* each rule evaluated, its id and the truthiness of its condition; a
\* condition that throws ends the loop
RECURSIVE evaluateSorted(_, _, _, _, _, _)
evaluateSorted(acc, sorted, i, values, globals, deps) ==
  IF i > Len(sorted) \/ acc.threw THEN acc
  ELSE IF sorted[i] \notin DOMAIN deps.rules
       THEN evaluateSorted(acc, sorted, i + 1, values, globals, deps)
  ELSE LET rule == deps.rules[sorted[i]].rule
           conditionResult == evaluate(rule.when, Context(values, globals))
       IN IF conditionResult = Throw
          THEN [acc EXCEPT !.threw = TRUE]
          ELSE evaluateSorted(
                 [acc EXCEPT
                    !.actions = @ \o (IF Truthy(conditionResult)
                                      THEN rule.then ELSE rule.else),
                    !.evaluated = Append(@, [id |-> sorted[i],
                                             result |-> Truthy(conditionResult)])],
                 sorted, i + 1, values, globals, deps)

evaluateRules(ruleIds, values, globals, deps) ==
  evaluateSorted([actions |-> <<>>, evaluated |-> <<>>, threw |-> FALSE],
                 sortRulesForEvaluation(ruleIds, deps), 1, values, globals, deps)

(***************************************************************************)
(* The heap.  A snapshot object is a record of four references, to its     *)
(* values map, its ui.sections map, its ui.fields map and its errors map;  *)
(* the two ui maps hold references to entry objects.  A machine state      *)
(* [heap, next, cur] is the heap, the allocation counter and the snapshot  *)
(* object the running function writes to.                                  *)
(***************************************************************************)
InputRefs ==
  [values |-> "values", sections |-> "sections", fields |-> "fields",
   errors |-> "errors"]

SectionRef(key) == "s:" \o key
FieldRef(key) == "f:" \o key

\* the heap that holds the snapshot s (a record of map contents) as the
\* object InputRefs
Load(s) ==
  LET secRefs == {SectionRef(k) : k \in DOMAIN s.sections}
      fldRefs == {FieldRef(k) : k \in DOMAIN s.fields}
  IN [r \in {"values", "sections", "fields", "errors"} \cup secRefs \cup fldRefs |->
        CASE r = "values" -> s.values
          [] r = "errors" -> s.errors
          [] r = "sections" -> [k \in DOMAIN s.sections |-> SectionRef(k)]
          [] r = "fields" -> [k \in DOMAIN s.fields |-> FieldRef(k)]
          [] r \in secRefs ->
               s.sections[CHOOSE k \in DOMAIN s.sections : SectionRef(k) = r]
          [] OTHER ->
               s.fields[CHOOSE k \in DOMAIN s.fields : FieldRef(k) = r]]

\* the contents of the snapshot object refs in heap
Deref(heap, refs) ==
  [values |-> heap[refs.values],
   sections |-> [k \in DOMAIN heap[refs.sections] |-> heap[heap[refs.sections][k]]],
   fields |-> [k \in DOMAIN heap[refs.fields] |-> heap[heap[refs.fields][k]]],
   errors |-> heap[refs.errors]]

NewRef(m) == "n" \o ToString(m.next)

\* a new object obj; its reference is NewRef(m)
Alloc(m, obj) ==
  [m EXCEPT !.heap = (NewRef(m) :> obj) @@ m.heap, !.next = m.next + 1]

\* {...snapshot.<map>}: cur.<map> becomes a new map with the same entries
CloneMap(m, map) ==
  [Alloc(m, m.heap[m.cur[map]]) EXCEPT !.cur[map] = NewRef(m)]

\* newSnapshot.<map>[key] = value: a write into the map object cur.<map>
WriteMap(m, map, key, value) ==
  [m EXCEPT !.heap[m.cur[map]] = Put(@, key, value)]

\* delete newSnapshot.<map>[key]
DeleteKey(m, map, key) ==
  [m EXCEPT !.heap[m.cur[map]] = Delete(@, key)]

\* newSnapshot.<map>[key], when newSnapshot.<map>[key] is an entry
HasEntry(m, map, key) == key \in DOMAIN m.heap[m.cur[map]]
EntryAt(m, map, key) == m.heap[m.heap[m.cur[map]][key]]

\* newSnapshot.ui.<map>[key] = {...newSnapshot.ui.<map>[key], ...}: a new
\* entry object is stored under key
ReplaceEntry(m, map, key, entry) ==
  WriteMap(Alloc(m, entry), map, key, NewRef(m))

(***************************************************************************)
(* engine.ts: applyActions.                                                *)
(***************************************************************************)
\* setDisabled that stops at the section lookup and never reaches the field
setDisabledSectionOnly(m, target, disabled) ==
  IF HasEntry(m, "sections", target)
  THEN ReplaceEntry(m, "sections", target,
         [EntryAt(m, "sections", target) EXCEPT !.disabled = disabled])
  ELSE m

\* ENABLE / DISABLE: the section entry and the field entry under target
setDisabled(m, target, disabled) ==
  LET m1 == IF HasEntry(m, "sections", target)
            THEN ReplaceEntry(m, "sections", target,
                   [EntryAt(m, "sections", target) EXCEPT !.disabled = disabled])
            ELSE m
  IN IF HasEntry(m1, "fields", target)
     THEN ReplaceEntry(m1, "fields", target,
            [EntryAt(m1, "fields", target) EXCEPT !.disabled = disabled])
     ELSE m1

\* setVisible with a HIDE_FIELD that also clears the hidden field's value
setVisibleClearing(m, map, target, visible) ==
  IF HasEntry(m, map, target)
  THEN LET m1 == ReplaceEntry(m, map, target,
                   [EntryAt(m, map, target) EXCEPT !.visible = visible])
       IN IF map = "fields" /\ ~visible THEN WriteMap(m1, "values", target, Undef)
          ELSE m1
  ELSE m

\* SHOW_SECTION / HIDE_SECTION (map "sections") and SHOW_FIELD / HIDE_FIELD
\* (map "fields")
setVisible(m, map, target, visible) ==
  IF HasEntry(m, map, target)
  THEN ReplaceEntry(m, map, target,
         [EntryAt(m, map, target) EXCEPT !.visible = visible])
  ELSE m

\* SET_ERROR that writes the errors map and leaves the field's entry alone
setErrorMapOnly(m, target, value) == WriteMap(m, "errors", target, value)

\* SET_ERROR: the errors map and the error of the field's ui entry
setError(m, target, value) ==
  LET m1 == WriteMap(m, "errors", target, value)
  IN IF HasEntry(m1, "fields", target)
     THEN ReplaceEntry(m1, "fields", target,
            [EntryAt(m1, "fields", target) EXCEPT !.error = value])
     ELSE m1

\* one case of the switch on action.type
applyAction(m, action) ==
  CASE action.type \in {"SHOW_SECTION", "HIDE_SECTION"} ->
         setVisible(m, "sections", action.target, action.type = "SHOW_SECTION")
    [] action.type \in {"SHOW_FIELD", "HIDE_FIELD"} ->
         setVisible(m, "fields", action.target, action.type = "SHOW_FIELD")
    [] action.type = "ENABLE" -> setDisabled(m, action.target, FALSE)
    [] action.type = "DISABLE" -> setDisabled(m, action.target, TRUE)
    [] action.type = "SET_VALUE" ->
         WriteMap(m, "values", action.target, action.value)
    [] action.type = "SET_OPTIONS" ->
         (IF HasEntry(m, "fields", action.target)
          THEN ReplaceEntry(m, "fields", action.target,
                 [EntryAt(m, "fields", action.target) EXCEPT
                    !.options = action.value])
          ELSE m)
    [] action.type = "SET_ERROR" -> setError(m, action.target, action.value)
    [] action.type = "CLEAR_ERROR" ->
         (LET m1 == DeleteKey(m, "errors", action.target)
          IN IF HasEntry(m1, "fields", action.target)
             THEN ReplaceEntry(m1, "fields", action.target,
                    [EntryAt(m1, "fields", action.target) EXCEPT
                       !.error = Undef])
             ELSE m1)
    [] OTHER -> m

\* applyEach that walks the list from its end
RECURSIVE applyEachReversed(_, _, _)
applyEachReversed(m, actions, i) ==
  IF i > Len(actions) THEN m
  ELSE applyAction(applyEachReversed(m, actions, i + 1), actions[i])

RECURSIVE applyEach(_, _, _)
applyEach(m, actions, i) ==
  IF i > Len(actions) THEN m
  ELSE applyEach(applyAction(m, actions[i]), actions, i + 1)

\* cloneSnapshot as {...snapshot} alone: the four maps stay shared
cloneSnapshotShared(m) == m

\* the clone of the snapshot m.cur that applyActions writes to
cloneSnapshot(m) ==
  CloneMap(CloneMap(CloneMap(CloneMap(m, "values"), "sections"), "fields"),
           "errors")

\* applyActions(actions, snapshot) on the snapshot object m.cur; the result
\* is the object cur of the machine state returned
applyActions(actions, m) == applyEach(cloneSnapshot(m), actions, 1)

(***************************************************************************)
(* engine.ts: createSnapshot, updateSnapshot, buildPayload.  A call        *)
(* returns the machine state it ends in (m.cur is the snapshot returned),  *)
(* whether an exception escaped it, and what its evaluation pass did.      *)
(***************************************************************************)
EmptyPass == [actions |-> <<>>, evaluated |-> <<>>, threw |-> FALSE]

createSnapshot(schema, globals) ==
  LET deps == buildDependencyGraph(schema)
      ui == seedUI(schema)
      values == initialValues(schema, globals)
      snapshot == [values |-> values, sections |-> ui.sections,
                   fields |-> ui.fields, errors |-> EmptyMap]
      m0 == [heap |-> Load(snapshot), next |-> 1, cur |-> InputRefs]
      \* an exception out of buildDependencyGraph ends the call before the pass
      pass == IF deps.threw THEN EmptyPass
              ELSE evaluateRules(deps.ruleOrder, values, globals, deps)
      threw == deps.threw \/ pass.threw
  IN [m |-> IF threw THEN m0 ELSE applyActions(pass.actions, m0),
      threw |-> threw, pass |-> pass]

\* updateSnapshot evaluating every rule of the graph, as createSnapshot does
updateSnapshotAllRules(snapshot, fieldId, value, globals, deps) ==
  LET m0 == [heap |-> Load(snapshot), next |-> 1, cur |-> InputRefs]
      m1 == [Alloc(m0, Put(m0.heap[m0.cur.values], fieldId, value))
               EXCEPT !.cur.values = NewRef(m0)]
      pass == evaluateRules(deps.ruleOrder, m1.heap[m1.cur.values], globals, deps)
  IN [m |-> IF pass.threw THEN m1 ELSE applyActions(pass.actions, m1),
      threw |-> pass.threw, pass |-> pass]

updateSnapshot(snapshot, fieldId, value, globals, deps) ==
  LET m0 == [heap |-> Load(snapshot), next |-> 1, cur |-> InputRefs]
      \* {...snapshot, values: {...snapshot.values, [fieldId]: value}}
      m1 == [Alloc(m0, Put(m0.heap[m0.cur.values], fieldId, value))
               EXCEPT !.cur.values = NewRef(m0)]
      affectedRuleIds == getRulesForField(fieldId, deps)
      pass == evaluateRules(affectedRuleIds, m1.heap[m1.cur.values], globals, deps)
  IN [m |-> IF pass.threw THEN m1 ELSE applyActions(pass.actions, m1),
      threw |-> pass.threw, pass |-> pass]

\* the contents of the snapshot a call returned
Returned(r) == Deref(r.m.heap, r.m.cur)
\* the contents of the call's input snapshot object after the call
InputAfter(r) == Deref(r.m.heap, InputRefs)
\* the keys of ui.<map> whose entry in the snapshot returned is the same
\* object as in the input snapshot
SameEntries(r, map) ==
  {k \in DOMAIN r.m.heap[InputRefs[map]] \cap DOMAIN r.m.heap[r.m.cur[map]] :
     r.m.heap[r.m.cur[map]][k] = r.m.heap[InputRefs[map]][k]}

\* Stripped without its second early return
StrippedHiddenOnly(snapshot, fieldId, stripHidden, stripDisabled) ==
  stripHidden /\ fieldId \in DOMAIN snapshot.fields
    /\ ~snapshot.fields[fieldId].visible

\* the two early returns of buildPayload's loop body: fieldUI is
\* snapshot.ui.fields[fieldId]
Stripped(snapshot, fieldId, stripHidden, stripDisabled) ==
  LET hasUI == fieldId \in DOMAIN snapshot.fields
  IN IF stripHidden /\ hasUI /\ ~snapshot.fields[fieldId].visible THEN TRUE
     ELSE IF stripDisabled /\ hasUI /\ snapshot.fields[fieldId].disabled THEN TRUE
     ELSE FALSE

\* Object.keys(snapshot.values).forEach(fieldId => ...): todo is the set of
\* keys still to visit (the result does not depend on their order)
RECURSIVE payloadLoop(_, _, _, _, _)
payloadLoop(payload, todo, snapshot, stripHidden, stripDisabled) ==
  IF todo = {} THEN payload
  ELSE LET fieldId == CHOOSE k \in todo : TRUE
       IN payloadLoop(
            IF Stripped(snapshot, fieldId, stripHidden, stripDisabled)
            THEN payload
            ELSE Put(payload, fieldId, snapshot.values[fieldId]),
            todo \ {fieldId}, snapshot, stripHidden, stripDisabled)

\* buildPayload with stripHidden defaulting to true and the argument ignored
buildPayloadAlwaysStrip(snapshot, stripHidden, stripDisabled) ==
  payloadLoop(EmptyMap, DOMAIN snapshot.values, snapshot, TRUE, stripDisabled)

buildPayload(snapshot, stripHidden, stripDisabled) ==
  payloadLoop(EmptyMap, DOMAIN snapshot.values, snapshot, stripHidden, stripDisabled)

(***************************************************************************)
(* validation.ts: zodFromField, createFormSchema.  A zod schema is modelled *)
(* by what it enforces: z.any().optional() is [kind |-> "any"], the schema  *)
(* zodFromField builds is the base type and the validators it applied.      *)
(***************************************************************************)
ZodAny == [kind |-> "any"]

zodFromField(field, snapshot, globals) ==
  [kind |-> "typed", type |-> field.type,
   validators |->
     SelectSeq(field.validators,
               LAMBDA validator :
                 ~(Declared(validator.when)
                   /\ ~Truthy(evaluate(validator.when,
                                       Context(snapshot.values, globals))))) ]

\* fields.forEach(field => shape[field.id] = ...)
RECURSIVE shapeFields(_, _, _, _, _)
shapeFields(shape, fields, i, snapshot, globals) ==
  IF i > Len(fields) THEN shape
  ELSE LET field == fields[i]
           shown == /\ field.id \in DOMAIN snapshot.fields
                    /\ snapshot.fields[field.id].visible
                    /\ ~snapshot.fields[field.id].disabled
       IN shapeFields(Put(shape, field.id,
                          IF shown THEN zodFromField(field, snapshot, globals)
                          ELSE ZodAny),
                      fields, i + 1, snapshot, globals)

\* formSchema.sections.forEach(section => ...): only visible sections
RECURSIVE shapeSections(_, _, _, _, _)
shapeSections(shape, sections, i, snapshot, globals) ==
  IF i > Len(sections) THEN shape
  ELSE LET section == sections[i]
           visible == /\ section.id \in DOMAIN snapshot.sections
                      /\ snapshot.sections[section.id].visible
       IN shapeSections(IF visible
                        THEN shapeFields(shape, getAllFieldsFromSection(section), 1,
                                         snapshot, globals)
                        ELSE shape,
                        sections, i + 1, snapshot, globals)

\* the shape of the z.object createFormSchema returns
createFormSchema(formSchema, snapshot, globals) ==
  shapeSections(EmptyMap, formSchema.sections, 1, snapshot, globals)

(***************************************************************************)
(* The schemas of the model.                                               *)
(***************************************************************************)
Cmp(op, path, v) == Op(op, List(<<Var(path), Lit(v)>>))

\* "chain": the form rule set_g writes g from a; the visibility of section
\* sec2 and the field rule gate_p read g, the form rule opts_p reads a and
\* g; field p is hidden by a
ChainSchema ==
  [globals |-> ("limit" :> Num(1)),
   formRules |-> <<
     Rule("set_g", Cmp(">=", <<"a">>, Num(1)),
          <<Action("SET_VALUE", "g", Num(1))>>,
          <<Action("SET_VALUE", "g", Num(0))>>),
     Rule("check_a", Cmp("==", <<"a">>, Num(0)),
          <<Action("SET_ERROR", "a", Str("bad"))>>,
          <<Action("CLEAR_ERROR", "a", Undef)>>),
     Rule("opts_p",
          Op("and", List(<<Cmp(">=", <<"a">>, Num(1)), Cmp("==", <<"g">>, Num(1))>>)),
          <<Action("SET_OPTIONS", "p", Options("o1"))>>,
          <<Action("SET_OPTIONS", "p", Options("o0"))>>)>>,
   sections |-> <<
     Section("main", FALSE, NoExpr,
             <<Field("a", "number", Undef, FALSE, NoExpr, <<>>),
               Field("g", "number", Undef, FALSE, NoExpr, <<>>)>>,
             <<"g">>, <<>>),
     Section("sec2", FALSE, Cmp("==", <<"g">>, Num(1)),
             <<WithValidators(
                 WithOptions(
                   Field("p", "text", Undef, FALSE,
                         Op("<", List(<<Var(<<"a">>), Var(<<"globals", "limit">>)>>)),
                         <<Rule("gate_p", Cmp("==", <<"g">>, Num(1)),
                                <<Action("ENABLE", "p", Undef)>>,
                                <<Action("DISABLE", "p", Undef)>>)>>),
                   Options("o0")),
                 <<Validator("required", Cmp("==", <<"a">>, Num(0)), Undef),
                   Validator("maxLength", NoExpr, Num(1))>>)>>,
             <<>>, <<>>)>>]

\* "sub": a section with a subsection that declares a field and a
\* visibility rule
SubSchema ==
  [globals |-> EmptyMap,
   formRules |-> <<>>,
   sections |-> <<
     Section("s1", FALSE, NoExpr,
             <<Field("a", "number", Num(1), FALSE, NoExpr, <<>>)>>,
             <<>>,
             <<SubSection("sub1", Cmp(">=", <<"a">>, Num(1)),
                 <<WithValidators(
                     Field("sf", "text", Undef, FALSE, NoExpr, <<>>),
                     <<Validator("required", NoExpr, Undef)>>)>>)>>)>>]

\* "ghost": a form rule whose actions name an id the schema does not declare
GhostSchema ==
  [globals |-> EmptyMap,
   formRules |-> <<
     Rule("touch_ghost", Cmp(">=", <<"a">>, Num(1)),
          <<Action("SET_OPTIONS", "ghost", Options("o1")),
            Action("HIDE_FIELD", "ghost", Undef),
            Action("DISABLE", "ghost", Undef),
            Action("SET_ERROR", "ghost", Str("bad")),
            Action("SET_VALUE", "ghost", Num(1))>>,
          <<Action("SHOW_SECTION", "ghost", Undef),
            Action("CLEAR_ERROR", "ghost", Undef)>>)>>,
   sections |-> <<
     Section("s1", FALSE, NoExpr,
             <<Field("a", "number", Undef, FALSE, NoExpr, <<>>),
               WithOptions(Field("b", "select", Undef, TRUE, NoExpr, <<>>),
                           Options("o0"))>>,
             <<>>, <<>>)>>]

\* "bad": a form rule whose condition holds a {var: v} with v not a string
BadSchema ==
  [globals |-> EmptyMap,
   formRules |-> <<
     Rule("broken", Op("and", List(<<Cmp(">=", <<"a">>, Num(1)), BadVar>>)),
          <<Action("DISABLE", "a", Undef)>>, <<>>)>>,
   sections |-> <<
     Section("s1", FALSE, NoExpr,
             <<Field("a", "number", Undef, FALSE, NoExpr, <<>>)>>,
             <<>>, <<>>)>>]

\* "scen1": the field rule pan_gate of panNumber enables it from age 18 on
Scenario1Schema ==
  [globals |-> EmptyMap,
   formRules |-> <<>>,
   sections |-> <<
     Section("personal", FALSE, NoExpr,
             <<Field("age", "number", Undef, FALSE, NoExpr, <<>>),
               WithValidators(
                 Field("panNumber", "text", Undef, FALSE, NoExpr,
                       <<Rule("pan_gate", Cmp(">=", <<"age">>, Num(18)),
                              <<Action("ENABLE", "panNumber", Undef)>>,
                              <<Action("DISABLE", "panNumber", Undef)>>)>>),
                 <<Validator("required", NoExpr, Undef)>>)>>,
             <<>>, <<>>)>>]

\* "scen2": section adult is visible from age globals.minAge on
Scenario2Schema ==
  [globals |-> ("minAge" :> Num(18)),
   formRules |-> <<>>,
   sections |-> <<
     Section("personal", FALSE, NoExpr,
             <<Field("age", "number", Undef, FALSE, NoExpr, <<>>),
               Field("name", "text", Undef, FALSE, NoExpr, <<>>)>>,
             <<>>, <<>>),
     Section("adult", FALSE,
             Op(">=", List(<<Var(<<"age">>), Var(<<"globals", "minAge">>)>>)),
             <<Field("license", "text", Undef, FALSE, NoExpr, <<>>)>>,
             <<>>, <<>>)>>]

\* "order": read_w is declared before write_w, the rule that writes the
\* field it reads; opt_t disables and enables an option of t; the branches
\* of write_w and clash hold several actions on one target and attribute
OrderSchema ==
  [globals |-> EmptyMap,
   formRules |-> <<
     Rule("read_w",
          Op("or", List(<<Cmp("==", <<"w">>, Num(1)), Cmp("==", <<"c">>, Num(2))>>)),
          <<Action("SHOW_FIELD", "t", Undef), Action("SET_ERROR", "t", Str("e1"))>>,
          <<Action("HIDE_FIELD", "t", Undef), Action("CLEAR_ERROR", "t", Undef)>>),
     Rule("write_w", Cmp(">=", <<"c">>, Num(1)),
          <<Action("SET_VALUE", "w", Num(1)), Action("SET_VALUE", "w", Num(2))>>,
          <<Action("SET_VALUE", "w", Num(0))>>),
     Rule("opt_t", Cmp(">=", <<"c">>, Num(1)),
          <<OptionAction("DISABLE_OPTION", "t", Str("retirement"))>>,
          <<OptionAction("ENABLE_OPTION", "t", Str("retirement"))>>),
     Rule("clash", Cmp(">=", <<"c">>, Num(2)),
          <<Action("DISABLE", "t", Undef), Action("ENABLE", "t", Undef),
            Action("DISABLE", "t", Undef),
            Action("SHOW_FIELD", "t", Undef), Action("HIDE_FIELD", "t", Undef),
            Action("SET_OPTIONS", "t", Options("o1")),
            Action("SET_OPTIONS", "t", Options("o0")),
            Action("CLEAR_ERROR", "t", Undef), Action("SET_ERROR", "t", Str("e2")),
            Action("HIDE_SECTION", "s1", Undef), Action("SHOW_SECTION", "s1", Undef)>>,
          <<Action("SET_ERROR", "t", Str("e2")), Action("CLEAR_ERROR", "t", Undef)>>)>>,
   sections |-> <<
     Section("s1", FALSE, NoExpr,
             <<Field("c", "number", Undef, FALSE, NoExpr, <<>>),
               Field("w", "number", Undef, FALSE, NoExpr, <<>>),
               WithOptions(Field("t", "select", Undef, FALSE, NoExpr, <<>>),
                           Options("o1"))>>,
             <<>>, <<>>)>>]

\* "cycle": ping writes b from a and pong writes a from b
CycleSchema ==
  [globals |-> EmptyMap,
   formRules |-> <<
     Rule("ping", Cmp(">=", <<"a">>, Num(1)),
          <<Action("SET_VALUE", "b", Num(1))>>, <<Action("SET_VALUE", "b", Num(0))>>),
     Rule("pong", Cmp(">=", <<"b">>, Num(1)),
          <<Action("SET_ERROR", "a", Str("bad"))>>,
          <<Action("SET_VALUE", "a", Num(0))>>)>>,
   sections |-> <<
     Section("s1", FALSE, NoExpr,
             <<Field("a", "number", Undef, FALSE, NoExpr, <<>>),
               Field("b", "number", Undef, FALSE, NoExpr, <<>>)>>,
             <<>>, <<>>)>>]

\* "selfw": the field rule of s writes the field it reads
SelfWriteSchema ==
  [globals |-> EmptyMap,
   formRules |-> <<>>,
   sections |-> <<
     Section("s1", FALSE, NoExpr,
             <<Field("s", "number", Undef, FALSE, NoExpr,
                     <<Rule("wrap", Cmp(">=", <<"s">>, Num(1)),
                            <<Action("SET_VALUE", "s", Num(0))>>, <<>>)>>)>>,
             <<>>, <<>>)>>]

\* "twice": the condition of dup reads d along two paths, so byField.d
\* lists dup twice; dup writes e, which the rule back reads
TwiceSchema ==
  [globals |-> EmptyMap,
   formRules |-> <<
     Rule("dup",
          Op("or", List(<<Cmp(">=", <<"d">>, Num(1)),
                          Cmp(">=", <<"values", "d">>, Num(1))>>)),
          <<Action("SET_VALUE", "e", Num(1))>>, <<Action("SET_VALUE", "e", Num(0))>>),
     Rule("back", Cmp(">=", <<"e">>, Num(1)),
          <<Action("SET_ERROR", "d", Str("bad"))>>,
          <<Action("CLEAR_ERROR", "d", Undef)>>)>>,
   sections |-> <<
     Section("s1", FALSE, NoExpr,
             <<Field("d", "number", Undef, FALSE, NoExpr, <<>>),
               Field("e", "number", Undef, FALSE, NoExpr, <<>>)>>,
             <<>>, <<>>)>>]

\* "nav": a form with tab navigation whose first section is visible while
\* the field k of its last section is below 1
NavSchema ==
  [globals |-> EmptyMap,
   formRules |-> <<>>,
   navigation |-> [type |-> "tabs"],
   sections |-> <<
     Section("intro", FALSE, Cmp("<", <<"k">>, Num(1)),
             <<Field("n", "text", Undef, FALSE, NoExpr, <<>>)>>,
             <<>>, <<>>),
     Section("last", FALSE, NoExpr,
             <<Field("k", "number", Undef, FALSE, NoExpr, <<>>)>>,
             <<>>, <<>>)>>]

SchemaNames ==
  {"chain", "sub", "ghost", "bad", "scen1", "scen2", "order", "cycle", "selfw",
   "twice", "nav"}

SchemaOf(name) ==
  CASE name = "chain" -> ChainSchema
    [] name = "sub" -> SubSchema
    [] name = "ghost" -> GhostSchema
    [] name = "scen1" -> Scenario1Schema
    [] name = "scen2" -> Scenario2Schema
    [] name = "order" -> OrderSchema
    [] name = "cycle" -> CycleSchema
    [] name = "selfw" -> SelfWriteSchema
    [] name = "twice" -> TwiceSchema
    [] name = "nav" -> NavSchema
    [] OTHER -> BadSchema

(***************************************************************************)
(* What the schema declares.                                               *)
(***************************************************************************)
\* every field declared in the schema, in sections and in subsections
DeclaredFields(sch) ==
  Flatten([i \in 1..Len(sch.sections) |-> getFieldsFromSection(sch.sections[i])])

\* the values a user can give a field of the type
UserValues(type) ==
  IF type = "number" THEN {Null, Undef} \cup {Num(n) : n \in 0..MaxNum}
  ELSE {Str(""), Str("x"), Undef}

\* the ages a user types around the threshold of the two scenarios
AgeValues(field) ==
  IF field.id = "age" THEN {Num(17), Num(18), Num(20)} ELSE {}

(***************************************************************************)
(* The state machine: a form session.                                      *)
(***************************************************************************)
VARIABLES
  schema,    \* the name of the session's schema
  deps,      \* snapshot.deps: the dependency graph createSnapshot built
  snapshot,  \* the snapshot the session holds: values, sections, fields, errors
  outcome,   \* "ok", or "exception" when the last call threw
  call,      \* the last call: its operation and arguments
  before,    \* the contents of the last call's input snapshot before the call
  input,     \* the contents of the same snapshot object after the call
  pass,      \* the evaluation pass of the last call: rules evaluated, actions
  kept,      \* the ui entries that are the same objects in input and result
  payload,   \* the result of the last call when it was buildPayload
  form,      \* FormRenderer's form state: the watched values, the field the
             \* user edited last, the updateSnapshot calls made since and
             \* the index of the section shown
  probe,     \* a single call of one of the engine's pure functions: its
             \* arguments and, once made, its result
  stored     \* the parity of the number of snapshot objects FormRenderer
             \* has stored with setSnapshot

vars ==
  <<schema, deps, snapshot, outcome, call, before, input, pass, kept, payload,
    form, probe, stored>>

TheSchema == SchemaOf(schema)
Globals == TheSchema.globals

EmptySnapshot ==
  [values |-> EmptyMap, sections |-> EmptyMap, fields |-> EmptyMap,
   errors |-> EmptyMap]
NoPayload == [made |-> FALSE]

\* the snapshot createSnapshot seeds before it evaluates the rules
Seeded(sch) ==
  [values |-> initialValues(sch, sch.globals), sections |-> seedUI(sch).sections,
   fields |-> seedUI(sch).fields, errors |-> EmptyMap]

\* the form state of a session that calls the engine without FormRenderer
NoForm ==
  [values |-> EmptyMap, edited |-> "", updates |-> 0, stripHidden |-> FALSE,
   currentSectionIndex |-> 0]

\* createSnapshot(schema, schema.globals) and what the call did
Created ==
  /\ schema \in SchemaNames
  /\ deps = buildDependencyGraph(SchemaOf(schema))
  /\ \E r \in {createSnapshot(SchemaOf(schema), SchemaOf(schema).globals)} :
        /\ outcome = IF r.threw THEN "exception" ELSE "ok"
        /\ snapshot = IF r.threw THEN EmptySnapshot ELSE Returned(r)
        /\ before = Seeded(SchemaOf(schema))
        /\ input = InputAfter(r)
        /\ pass = r.pass
        /\ kept = [sections |-> SameEntries(r, "sections"),
                   fields |-> SameEntries(r, "fields")]
  /\ call = [op |-> "create"]
  /\ payload = NoPayload

\* no function is called on its own in a form session
NoProbe == [kind |-> "none"]

Init == Created /\ form = NoForm /\ probe = NoProbe /\ stored = 0

\* the renderer commits a user's edit of a field: updateSnapshot
Update ==
  /\ outcome = "ok"
  /\ \E f \in Range(DeclaredFields(TheSchema)) :
       \E v \in UserValues(f.type) \cup AgeValues(f) :
         \E r \in {updateSnapshot(snapshot, f.id, v, Globals, deps)} :
            /\ outcome' = IF r.threw THEN "exception" ELSE "ok"
            /\ snapshot' = IF r.threw THEN snapshot ELSE Returned(r)
            /\ before' = snapshot
            /\ input' = InputAfter(r)
            /\ pass' = r.pass
            /\ kept' = [sections |-> SameEntries(r, "sections"),
                        fields |-> SameEntries(r, "fields")]
            /\ call' = [op |-> "update", field |-> f.id, value |-> v]
  /\ payload' = NoPayload
  /\ UNCHANGED <<schema, deps, form, probe, stored>>

\* the renderer submits: buildPayload
BuildPayload ==
  /\ outcome = "ok"
  /\ \E stripHidden \in BOOLEAN, stripDisabled \in BOOLEAN :
       /\ payload' = [made |-> TRUE,
                      data |-> buildPayload(snapshot, stripHidden, stripDisabled)]
       /\ call' = [op |-> "payload", stripHidden |-> stripHidden,
                   stripDisabled |-> stripDisabled]
  /\ before' = snapshot
  /\ input' = snapshot
  /\ pass' = EmptyPass
  /\ kept' = [sections |-> DOMAIN snapshot.sections,
              fields |-> DOMAIN snapshot.fields]
  /\ UNCHANGED <<schema, deps, snapshot, outcome, form, probe, stored>>

Next == Update \/ BuildPayload

Spec == Init /\ [][Next]_vars

(***************************************************************************)
(* FormRenderer.tsx: the form session of the renderer.  react-hook-form    *)
(* holds the watched values; the value-sync effect runs after every render *)
(* and hands the engine the watched values that differ from the snapshot.  *)
(***************************************************************************)
\* the updateSnapshot calls after one edit the model counts: form.updates
\* stays at MaxSync once it has reached it
MaxSync == 3

\* Object.keys(watchedValues): the keys of the default values, in the order
\* initialValues wrote them
KeyOrder(sch) ==
  Flatten([i \in 1..Len(sch.sections) |->
             Ids(getAllFieldsFromSection(sch.sections[i]))])

\* watchedValues[fieldId] !== snapshot.values[fieldId]
Differs(watched, values, fieldId) ==
  fieldId \in DOMAIN watched
    /\ ~StrictEq(watched[fieldId], Lookup(values, fieldId))

\* the forEach of the effect: an updateSnapshot on newSnapshot for each
\* watched key whose value differs from that of the snapshot rendered
RECURSIVE syncLoop(_, _, _, _, _, _, _)
syncLoop(acc, keys, i, watched, rendered, globals, graph) ==
  IF i > Len(keys) \/ acc.threw THEN acc
  ELSE IF Differs(watched, rendered.values, keys[i])
       THEN LET r == updateSnapshot(acc.newSnapshot, keys[i], watched[keys[i]],
                                    globals, graph)
            IN syncLoop([newSnapshot |-> IF r.threw THEN acc.newSnapshot
                                         ELSE Returned(r),
                         threw |-> r.threw, updates |-> acc.updates + 1,
                         before |-> acc.newSnapshot, last |-> r,
                         field |-> keys[i], value |-> watched[keys[i]]],
                        keys, i + 1, watched, rendered, globals, graph)
       ELSE syncLoop(acc, keys, i + 1, watched, rendered, globals, graph)

\* setValue(fieldId, undefined) for every field the new snapshot hides
clearHidden(watched, fields) ==
  [k \in DOMAIN watched \cup {f \in DOMAIN fields : ~fields[f].visible} |->
     IF k \in DOMAIN fields /\ ~fields[k].visible THEN Undef ELSE watched[k]]

\* the renderer mounts: useState(createSnapshot), useForm({defaultValues})
Mount ==
  /\ Created
  /\ \E stripHiddenFields \in BOOLEAN :
       form = [values |-> snapshot.values, edited |-> "", updates |-> 0,
               stripHidden |-> stripHiddenFields, currentSectionIndex |-> 0]
  /\ probe = NoProbe
  /\ stored = 0

\* the effect has work to do
Pending == \E k \in DOMAIN form.values : Differs(form.values, snapshot.values, k)

\* schema.sections.filter(section => snapshot.ui.sections[section.id]?.visible)
visibleSections ==
  SelectSeq(TheSchema.sections,
            LAMBDA section : /\ section.id \in DOMAIN snapshot.sections
                             /\ snapshot.sections[section.id].visible)

\* the layout with navigation, which renders the current section alone:
\* schema.navigation is there and its type is not 'single'
Paged ==
  "navigation" \in DOMAIN TheSchema /\ TheSchema.navigation.type # "single"

\* the field is rendered as an input the user can type in
Editable(field) ==
  /\ field.id \in DOMAIN form.values
  /\ field.id \in DOMAIN snapshot.fields
  /\ snapshot.fields[field.id].visible /\ ~snapshot.fields[field.id].disabled
  /\ \A sec \in Range(TheSchema.sections) :
       field \in Range(sec.fields) =>
         (sec.id \in DOMAIN snapshot.sections /\ snapshot.sections[sec.id].visible)
  \* currentSection = visibleSections[currentSectionIndex] is rendered, if
  \* it is defined
  /\ Paged =>
       /\ form.currentSectionIndex < Len(visibleSections)
       /\ field \in Range(visibleSections[form.currentSectionIndex + 1].fields)

\* the user edits one field of the form
Edit ==
  /\ outcome = "ok" /\ ~Pending
  /\ \E f \in Range(DeclaredFields(TheSchema)) :
       \E v \in UserValues(f.type) \cup AgeValues(f) :
         /\ Editable(f)
         /\ ~StrictEq(v, form.values[f.id])
         /\ form' = [form EXCEPT !.values[f.id] = v, !.edited = f.id, !.updates = 0]
  /\ UNCHANGED <<schema, deps, snapshot, outcome, call, before, input, pass,
                 kept, payload, probe, stored>>

\* one run of the value-sync effect that finds a difference
Sync ==
  /\ outcome = "ok" /\ Pending
  /\ \E acc \in {syncLoop([newSnapshot |-> snapshot, threw |-> FALSE, updates |-> 0],
                          KeyOrder(TheSchema), 1, form.values, snapshot,
                          Globals, deps)} :
       /\ outcome' = IF acc.threw THEN "exception" ELSE "ok"
       /\ snapshot' = acc.newSnapshot
       /\ before' = acc.before
       /\ input' = InputAfter(acc.last)
       /\ pass' = acc.last.pass
       /\ kept' = [sections |-> SameEntries(acc.last, "sections"),
                   fields |-> SameEntries(acc.last, "fields")]
       /\ call' = [op |-> "update", field |-> acc.field, value |-> acc.value]
       /\ form' = [form EXCEPT
                     !.updates = IF @ + acc.updates < MaxSync
                                  THEN @ + acc.updates ELSE MaxSync,
                     !.values = IF form.stripHidden /\ ~acc.threw
                                THEN clearHidden(@, acc.newSnapshot.fields)
                                ELSE @]
  /\ payload' = NoPayload
  \* setSnapshot(newSnapshot): updateSnapshot returned a new object, also
  \* when its contents are those of the old one
  /\ stored' = 1 - stored
  /\ UNCHANGED <<schema, deps, probe>>

\* the Next button, rendered with the current section and enabled by
\* canNext: setCurrentSectionIndex(prev => Math.min(prev + 1, length - 1))
HandleNext ==
  /\ outcome = "ok" /\ ~Pending /\ Paged
  /\ form.currentSectionIndex < Len(visibleSections) - 1
  /\ form' = [form EXCEPT
                !.currentSectionIndex =
                  IF @ + 1 < Len(visibleSections) - 1
                  THEN @ + 1 ELSE Len(visibleSections) - 1]
  /\ UNCHANGED <<schema, deps, snapshot, outcome, call, before, input, pass,
                 kept, payload, probe, stored>>

\* the Previous button, rendered with the current section and enabled by
\* canPrevious: setCurrentSectionIndex(prev => Math.max(prev - 1, 0))
HandlePrevious ==
  /\ outcome = "ok" /\ ~Pending /\ Paged
  /\ form.currentSectionIndex < Len(visibleSections)
  /\ form.currentSectionIndex > 0
  /\ form' = [form EXCEPT
                !.currentSectionIndex = IF @ - 1 > 0 THEN @ - 1 ELSE 0]
  /\ UNCHANGED <<schema, deps, snapshot, outcome, call, before, input, pass,
                 kept, payload, probe, stored>>

\* a click on the tab of another visible section: setCurrentSectionIndex(index)
HandleSectionClick ==
  /\ outcome = "ok" /\ ~Pending /\ Paged
  /\ \E index \in 0..(Len(visibleSections) - 1) :
       /\ index # form.currentSectionIndex
       /\ form' = [form EXCEPT !.currentSectionIndex = index]
  /\ UNCHANGED <<schema, deps, snapshot, outcome, call, before, input, pass,
                 kept, payload, probe, stored>>

NextRenderer == Edit \/ Sync \/ HandleNext \/ HandlePrevious \/ HandleSectionClick

SpecRenderer == Mount /\ [][NextRenderer]_vars

\* the effect runs again: it has work to do and stores a new snapshot
\* object, whatever it computes.  Every Sync step is such a step and no
\* other step of the renderer is
Rerun == outcome = "ok" /\ Pending /\ stored' = 1 - stored

\* React runs the effect after every render in which one of its
\* dependencies changed, and a stored snapshot is one of them: a run that
\* has work to do, which is a step that changes stored, is not put off
\* forever
SpecRendererFair == SpecRenderer /\ WF_stored(Rerun)

(***************************************************************************)
(* The engine's pure functions, each called once on arguments of its own:  *)
(* evaluate on an expression and a context.                                *)
(***************************************************************************)
\* the evaluation contexts: each of data, globals and params is without the
\* key "k" or holds one value under it; the engine itself passes no params
ProbeContexts ==
  LET values == {Null, Str(""), Str("1"), Str("2"), Str("18"), Str("x"),
                 Bool(TRUE), EmptyArr} \cup {Num(n) : n \in 0..MaxNum}
      Stores(held) == {EmptyMap} \cup {("k" :> v) : v \in held}
  IN {c \in [data : Stores(values), globals : Stores(values),
              params : Stores({Num(1), Str("x")}), hasParams : BOOLEAN] :
        ~c.hasParams => c.params = EmptyMap}

\* variable references, comparisons of two references, and the
\* single-operand operators on a bare operand and on a one-element list
ProbeExprs ==
  LET operands == {Var(<<"k">>), Cmp(">=", <<"k">>, Num(1))}
  IN {Var(<<"k">>), Var(<<"globals", "k">>), Var(<<"params", "k">>)}
       \cup {Op(o, List(<<Var(<<"k">>), Var(<<"globals", "k">>)>>)) :
               o \in {">", ">=", "<", "<="}}
       \cup {Op(o, e) : o \in {"not", "empty", "count"}, e \in operands}
       \cup {Op(o, List(<<e>>)) : o \in {"not", "empty", "count"}, e \in operands}

\* the session in which the functions are called: none of its state is
\* read.  The call is evaluate on an expression and a context, or
\* initialValues on a schema of one field of some type, with or without a
\* defaultValue
InitPure ==
  /\ Created /\ schema = "scen2"
  /\ form = NoForm /\ stored = 0
  /\ \/ probe \in [kind : {"evaluate"}, expr : ProbeExprs,
                    context : ProbeContexts, done : {FALSE}, result : {Undef}]
     \/ \E disabled \in BOOLEAN,
           type \in {"text", "textarea", "number", "email", "tel", "url", "select",
                     "multi-select", "radio", "checkbox", "checkbox-group",
                     "switch", "date", "datetime", "time", "file", "hidden",
                     "info", "heading", "table"},
           defaultValue \in {Undef, Null, Str("x"), Num(1), EmptyArr} :
          probe = [kind |-> "initial",
                   field |-> Field("f", type, defaultValue, disabled, NoExpr, <<>>),
                   done |-> FALSE, result |-> EmptyMap]

\* evaluate(expr, context)
Evaluate ==
  /\ probe.kind = "evaluate" /\ ~probe.done
  /\ probe' = [probe EXCEPT !.done = TRUE,
                            !.result = evaluate(probe.expr, probe.context)]
  /\ UNCHANGED <<schema, deps, snapshot, outcome, call, before, input, pass,
                 kept, payload, form, stored>>

\* initialValues(schema) on the schema whose one section holds probe.field
InitialValues ==
  /\ probe.kind = "initial" /\ ~probe.done
  /\ probe' = [probe EXCEPT
                 !.done = TRUE,
                 !.result = initialValues(
                   [globals |-> EmptyMap, formRules |-> <<>>,
                    sections |-> <<Section("s1", FALSE, NoExpr, <<probe.field>>,
                                           <<>>, <<>>)>>],
                   EmptyMap)]
  /\ UNCHANGED <<schema, deps, snapshot, outcome, call, before, input, pass,
                 kept, payload, form, stored>>

NextPure == Evaluate \/ InitialValues

SpecPure == InitPure /\ [][NextPure]_vars

(***************************************************************************)
(* Properties.                                                             *)
(***************************************************************************)
\* the ids the schema declares: fields, sections and subsection keys
DeclaredFieldIds(sch) == {f.id : f \in Range(DeclaredFields(sch))}
SectionIds(sch) == {sec.id : sec \in Range(sch.sections)}
SubSectionKeys(sch) ==
  {"subsection_" \o sub.id :
     sub \in UNION {Range(sec.subsections) : sec \in Range(sch.sections)}}
DeclaredIds(sch) ==
  DeclaredFieldIds(sch) \cup SectionIds(sch) \cup SubSectionKeys(sch)

\* the validators the schema enforces on the value under fieldId: a key the
\* object schema does not name is stripped unchecked
Enforced(shape, fieldId) ==
  IF fieldId \in DOMAIN shape /\ shape[fieldId].kind = "typed"
  THEN shape[fieldId].validators ELSE <<>>

\* the truthiness of a visibility rule against the snapshot held
VisibleByRule(rule) == Truthy(evaluate(rule, Context(snapshot.values, Globals)))

\* C1: in the snapshot createSnapshot returned and after every sequence of
\* updateSnapshot calls, each section and field that declares a
\* visibilityRule has a ui entry whose visible flag equals the truthiness of
\* that rule on the snapshot's own values and globals.
C1_RuleConsistency ==
  outcome = "ok" =>
    /\ \A sec \in Range(TheSchema.sections) :
         Declared(sec.visibilityRule) =>
           /\ sec.id \in DOMAIN snapshot.sections
           /\ snapshot.sections[sec.id].visible = VisibleByRule(sec.visibilityRule)
    /\ \A f \in Range(DeclaredFields(TheSchema)) :
         Declared(f.visibilityRule) =>
           /\ f.id \in DOMAIN snapshot.fields
           /\ snapshot.fields[f.id].visible = VisibleByRule(f.visibilityRule)

\* the values the last evaluation pass was handed
PassValues ==
  IF call.op = "update" THEN Put(before.values, call.field, call.value)
  ELSE before.values

\* the actions of the branch of rule id that the last pass took
TakenBranch(e) ==
  IF e.result THEN deps.rules[e.id].rule.then ELSE deps.rules[e.id].rule.else

\* whether the condition of rule id reads field
Reads(id, field) ==
  \E i \in 1..Len(deps.rules[id].reads) :
    LET path == deps.rules[id].reads[i]
    IN ~IsGlobalsPath(path) /\ ~IsParamsPath(path) /\ LastSegment(path) = field

\* C2: when a pass evaluates a rule W whose taken branch has a SET_VALUE on
\* field f and another rule R whose condition reads f, the result of R is
\* the truthiness of its condition on the values with W's write applied.
C2_ChainedWritesObserved ==
  (outcome = "ok" /\ call.op \in {"create", "update"}) =>
    \A w \in Range(pass.evaluated), r \in Range(pass.evaluated) :
      \A act \in Range(TakenBranch(w)) :
        (w.id # r.id /\ act.type = "SET_VALUE" /\ Reads(r.id, act.target)) =>
          r.result = Truthy(evaluate(deps.rules[r.id].rule.when,
                                     Context(Put(PassValues, act.target, act.value),
                                             Globals)))

\* the ids the actions of the rules listed in byField[field] target
TargetsOf(field) ==
  {act.target :
     act \in UNION {Range(AllActions(deps.rules[id].rule)) :
                      id \in Range(getRulesForField(field, deps))}}

\* C3: updateSnapshot(s, f, v) evaluates only rules listed in byField[f], and
\* every ui.sections / ui.fields / errors entry whose id no action of those
\* rules targets is unchanged: the ui entry is the same object as in s.
C3_SelectiveFrame ==
  (outcome = "ok" /\ call.op = "update") =>
    /\ {e.id : e \in Range(pass.evaluated)}
         \subseteq Range(getRulesForField(call.field, deps))
    /\ \A k \in DOMAIN before.sections \ TargetsOf(call.field) :
         k \in kept.sections /\ snapshot.sections[k] = before.sections[k]
    /\ \A k \in DOMAIN before.fields \ TargetsOf(call.field) :
         k \in kept.fields /\ snapshot.fields[k] = before.fields[k]
    /\ \A k \in (DOMAIN before.errors \cup DOMAIN snapshot.errors)
                  \ TargetsOf(call.field) :
         /\ k \in DOMAIN before.errors /\ k \in DOMAIN snapshot.errors
         /\ snapshot.errors[k] = before.errors[k]

\* an update whose rules replaced one ui entry and set an error, while
\* another field's entry stayed the same object and an older error stayed
C3_Witness ==
  /\ outcome = "ok" /\ call.op = "update"
  /\ Len(pass.evaluated) > 0
  /\ \E k \in DOMAIN snapshot.fields :
       k \notin kept.fields /\ snapshot.fields[k] # before.fields[k]
  /\ \E k \in DOMAIN snapshot.fields \ TargetsOf(call.field) : k \in kept.fields
  /\ \E k \in DOMAIN snapshot.errors \ TargetsOf(call.field) :
       k \in DOMAIN before.errors

\* C4: after createSnapshot and every sequence of updateSnapshot calls,
\* ui.sections has an entry for every section and (under subsection_<id>)
\* every subsection, and ui.fields and values have one for every declared
\* field, those declared in subsections included.
C4_KeyCompleteness ==
  outcome = "ok" =>
    /\ SectionIds(TheSchema) \cup SubSectionKeys(TheSchema)
         \subseteq DOMAIN snapshot.sections
    /\ DeclaredFieldIds(TheSchema) \subseteq DOMAIN snapshot.fields
    /\ DeclaredFieldIds(TheSchema) \subseteq DOMAIN snapshot.values

\* the snapshot the last call handed to applyActions
Applied ==
  IF call.op = "update" THEN [before EXCEPT !.values = PassValues] ELSE before

\* C5: applying actions whose targets are not ids the schema declares
\* changes nothing, and no key that is not a declared id is ever added to
\* values, ui or errors.
C5_MissingTargetNoOp ==
  outcome = "ok" =>
    /\ DOMAIN snapshot.values \cup DOMAIN snapshot.errors
         \cup DOMAIN snapshot.sections \cup DOMAIN snapshot.fields
         \subseteq DeclaredIds(TheSchema)
    /\ (call.op \in {"create", "update"}
        /\ \A act \in Range(pass.actions) : act.target \notin DeclaredIds(TheSchema))
         => snapshot = Applied

\* C6: updateSnapshot and applyActions leave their input snapshot as it
\* was: after the call its values, ui.sections, ui.fields and errors maps and
\* every entry in them hold what they held before the call.
C6_InputNotMutated == input = before

\* an update that wrote values, replaced a field's ui entry and set an error
C6_Witness ==
  /\ outcome = "ok" /\ call.op = "update"
  /\ snapshot.values # before.values
  /\ snapshot.fields # before.fields
  /\ snapshot.errors # before.errors
  /\ input = before

\* C7: a rule whose condition cannot be evaluated makes neither
\* createSnapshot nor updateSnapshot throw: the failure is reported without
\* an exception escaping the call, and no action of the failed pass is
\* applied.
C7_AtomicNonFatal ==
  /\ outcome # "exception"
  /\ pass.threw => (input = before /\ snapshot = before)

\* the fields a SET_VALUE action of the pass targets
Written(p) == {act.target : act \in {a \in Range(p.actions) : a.type = "SET_VALUE"}}

\* C8: values[g] changes only by an updateSnapshot on g or by a SET_VALUE
\* action on g; showing, hiding, enabling, disabling and buildPayload leave
\* it alone, so a field hidden and shown again by edits of other fields
\* holds the value it had.
C8_ValueRetention ==
  [][\A g \in DOMAIN snapshot.values \cup DOMAIN snapshot'.values :
       (g \in DOMAIN snapshot.values /\ g \in DOMAIN snapshot'.values
        /\ snapshot'.values[g] = snapshot.values[g])
       \/ (call'.op = "update" /\ (call'.field = g \/ g \in Written(pass')))]_vars

\* an edit of another field showed a hidden field again, and the field
\* still holds the text typed before it was hidden
C8_Witness ==
  /\ outcome = "ok" /\ call.op = "update"
  /\ \E k \in DOMAIN snapshot.fields :
       /\ call.field # k /\ k \notin Written(pass)
       /\ ~before.fields[k].visible /\ snapshot.fields[k].visible
       /\ snapshot.values[k] = Str("x")

\* C9: buildPayload(s, stripHidden, stripDisabled) returns the entries of
\* s.values except those of fields whose ui entry is hidden, when stripHidden,
\* and those whose ui entry is disabled, when stripDisabled.
C9_PayloadFiltering ==
  payload.made =>
    /\ DOMAIN payload.data =
         {k \in DOMAIN snapshot.values :
            /\ ~(call.stripHidden /\ k \in DOMAIN snapshot.fields
                 /\ ~snapshot.fields[k].visible)
            /\ ~(call.stripDisabled /\ k \in DOMAIN snapshot.fields
                 /\ snapshot.fields[k].disabled)}
    /\ \A k \in DOMAIN payload.data : payload.data[k] = snapshot.values[k]

\* a payload that lacks a hidden field whose typed value the snapshot holds
\* and keeps the fields that are visible
C9_Witness ==
  /\ payload.made /\ call.stripHidden
  /\ \E k \in DOMAIN snapshot.fields :
       /\ ~snapshot.fields[k].visible
       /\ snapshot.values[k] = Str("x")
       /\ k \notin DOMAIN payload.data
  /\ \E k \in DOMAIN payload.data : snapshot.fields[k].visible

\* C10: buildPayload(s, false, false) has the keys of s.values and the same
\* value under every key.
C10_PayloadRoundTrip ==
  (payload.made /\ ~call.stripHidden /\ ~call.stripDisabled) =>
    payload.data = snapshot.values

\* an unstripped payload of a snapshot with a hidden and disabled field
C10_Witness ==
  /\ payload.made /\ ~call.stripHidden /\ ~call.stripDisabled
  /\ \E k \in DOMAIN snapshot.fields :
       ~snapshot.fields[k].visible /\ snapshot.fields[k].disabled
       /\ k \in DOMAIN payload.data

\* C11: in the graph buildDependencyGraph returns, a rule id is listed under
\* byField[k] exactly when the rule's condition reads a path that starts
\* with neither globals. nor params. and whose last segment is k; this holds
\* for form rules, field rules and the synthesized visibility rules.
C11_IndexExcludesGlobals ==
  ~deps.threw =>
    \A k \in DOMAIN deps.byField \cup DeclaredFieldIds(TheSchema) :
      \A id \in DOMAIN deps.rules :
        (k \in DOMAIN deps.byField /\ id \in Range(deps.byField[k]))
          <=> Reads(id, k)

\* whether the value is a number that is at least 18
IsAdult(v) == v.t = "num" /\ v.n >= 18

\* C13: in the schema whose only rule on panNumber is "when age >= 18 then
\* ENABLE panNumber else DISABLE panNumber", panNumber is disabled after
\* createSnapshot (age is null) and, after every sequence of updates, is
\* disabled exactly when the current age is not at least 18.
C13_EnableDisableTracking ==
  schema = "scen1" =>
    /\ call.op = "create" =>
         (snapshot.values["age"] = Null /\ snapshot.fields["panNumber"].disabled)
    /\ snapshot.fields["panNumber"].disabled = ~IsAdult(snapshot.values["age"])

\* age was 20 and panNumber enabled, and the last update took age under 18
C13_Witness ==
  /\ schema = "scen1" /\ call.op = "update" /\ call.field = "age"
  /\ ~before.fields["panNumber"].disabled
  /\ before.values["age"] = Num(20)
  /\ snapshot.values["age"] = Num(17)
  /\ snapshot.fields["panNumber"].disabled

\* C14: with visibilityRule age >= globals.minAge and globals.minAge = 18,
\* the section is visible exactly when the last value of age is at least 18:
\* hidden after update(age, 17), visible after update(age, 18); an update of
\* another field leaves the flag as it was.
C14_SectionVisibilityGlobals ==
  schema = "scen2" =>
    /\ snapshot.sections["adult"].visible = IsAdult(snapshot.values["age"])
    /\ (call.op = "update" /\ call.field # "age") =>
         snapshot.sections["adult"].visible = before.sections["adult"].visible

\* age went from 17, with the section hidden, to 18
C14_Witness ==
  /\ schema = "scen2" /\ call.op = "update" /\ call.field = "age"
  /\ before.values["age"] = Num(17) /\ ~before.sections["adult"].visible
  /\ snapshot.values["age"] = Num(18) /\ snapshot.sections["adult"].visible

\* the section or subsection that declares the field, by its key in ui.sections
OwnerKeys(field) ==
  {sec.id : sec \in {x \in Range(TheSchema.sections) :
                       field \in Range(x.fields)}}
  \cup {"subsection_" \o sub.id :
          sub \in {y \in UNION {Range(x.subsections) :
                                  x \in Range(TheSchema.sections)} :
                     field \in Range(y.fields)}}

\* a ui flag of the snapshot, or the value every entry is seeded with when
\* the snapshot has no entry under the key
FlagOf(map, key, flag, seeded) ==
  IF key \in DOMAIN map THEN map[key][flag] ELSE seeded

\* the field is visible and enabled, and so is shown in a visible owner
VisibleAndEnabled(field) ==
  /\ FlagOf(snapshot.fields, field.id, "visible", TRUE)
  /\ ~FlagOf(snapshot.fields, field.id, "disabled", field.disabled)
  /\ \A k \in OwnerKeys(field) : FlagOf(snapshot.sections, k, "visible", TRUE)

\* the declared validators of the field whose when is absent or truthy
ActiveValidators(field) ==
  SelectSeq(field.validators,
            LAMBDA v : v.when = NoExpr
                       \/ Truthy(evaluate(v.when, Context(snapshot.values, Globals))))

\* C15: the schema createFormSchema builds for a snapshot enforces on every
\* declared field, whether a section or a subsection declares it, exactly
\* its validators whose when is absent or truthy if the field is visible and
\* enabled, and nothing if the field is hidden or disabled.
C15_ActiveValidators ==
  outcome = "ok" =>
    \A field \in Range(DeclaredFields(TheSchema)) :
      Enforced(createFormSchema(TheSchema, snapshot, Globals), field.id)
        = IF VisibleAndEnabled(field) THEN ActiveValidators(field) ELSE <<>>

\* C16 (under SpecRenderer): after a user's edit of one field the value-sync
\* effect calls updateSnapshot once, for that field and its new value, and
\* makes no other call until the next edit, whatever the rules of the schema.
C16_OneEventOneUpdate ==
  /\ form.updates <= 1
  /\ form.updates = 1 =>
       /\ call.op = "update" /\ call.field = form.edited
       /\ call.value = form.values[form.edited]

\* the option values ui.fields[target].disabledOptions holds
DisabledOptions(target) ==
  IF target \in DOMAIN snapshot.fields
       /\ "disabledOptions" \in DOMAIN snapshot.fields[target]
  THEN snapshot.fields[target].disabledOptions ELSE {}

\* the type of the last DISABLE_OPTION / ENABLE_OPTION action of the list on
\* the option of the target, or "none"
RECURSIVE LastOptionAction(_, _, _)
LastOptionAction(actions, target, option) ==
  IF actions = <<>> THEN "none"
  ELSE LET act == actions[Len(actions)]
       IN IF act.type \in {"DISABLE_OPTION", "ENABLE_OPTION"}
             /\ act.target = target /\ act.optionValue = option
          THEN act.type
          ELSE LastOptionAction(SubSeq(actions, 1, Len(actions) - 1), target, option)

\* C17: after applyActions has applied a list of actions, an option value
\* whose last action in the list is DISABLE_OPTION on field t is a member of
\* ui.fields[t].disabledOptions, and one whose last action is ENABLE_OPTION
\* is not.
C17_OptionActions ==
  (outcome = "ok" /\ call.op \in {"create", "update"}) =>
    \A act \in {a \in Range(pass.actions) :
                  a.type \in {"DISABLE_OPTION", "ENABLE_OPTION"}} :
      (act.optionValue \in DisabledOptions(act.target))
        <=> (LastOptionAction(pass.actions, act.target, act.optionValue)
               = "DISABLE_OPTION")

\* the list of rule ids the last call handed to evaluateRules
RuleIds ==
  IF call.op = "create" THEN deps.ruleOrder
  ELSE IF call.op = "update" THEN getRulesForField(call.field, deps)
  ELSE <<>>

\* the position of the rule id in the list
Pos(list, id) == CHOOSE i \in 1..Len(list) : list[i] = id

\* rule w has a SET_VALUE action, in then or else, on the field
Writes(w, field) ==
  \E act \in Range(AllActions(deps.rules[w].rule)) :
    act.type = "SET_VALUE" /\ act.target = field

\* the reads of rule r include the path that is the field's id
ReadsExactly(r, field) == <<field>> \in Range(deps.rules[r].reads)

\* the rules reachable from those of S in one or more steps along the edges
RECURSIVE Closure(_, _)
Closure(S, edges) ==
  LET more == S \cup {e[2] : e \in {x \in edges : x[1] \in S}}
  IN IF more = S THEN S ELSE Closure(more, edges)
ReachableFrom(r, edges) == Closure({e[2] : e \in {x \in edges : x[1] = r}}, edges)

\* the edges the sort follows among the rules of ids: from a writer to each
\* other rule that reads, by the last segment of a path, the field written
SortEdges(ids) ==
  {e \in ids \X ids :
     e[1] # e[2] /\ \E f \in DeclaredIds(TheSchema) \cup DOMAIN deps.byField :
                       Writes(e[1], f) /\ Reads(e[2], f)}

\* sortRulesForEvaluation returns each distinct id of ruleIds once
IsPermutation(sorted, ruleIds) ==
  /\ Range(sorted) = Range(ruleIds)
  /\ \A i, j \in 1..Len(sorted) : sorted[i] = sorted[j] => i = j

CycleEdges ==
  {e \in (DOMAIN deps.rules) \X (DOMAIN deps.rules) :
     \E f \in DeclaredIds(TheSchema) : Writes(e[1], f) /\ ReadsExactly(e[2], f)}

RECURSIVE LastWrite(_, _, _)
LastWrite(actions, types, target) ==
  IF actions = <<>> THEN Action("none", target, Undef)
  ELSE IF actions[Len(actions)].type \in types
            /\ actions[Len(actions)].target = target
       THEN actions[Len(actions)]
       ELSE LastWrite(SubSeq(actions, 1, Len(actions) - 1), types, target)

\* the flag of an entry after the actions: that of the last action of the
\* two types on the key, or the one the entry had
FlagAfter(entry, key, flag, setType, clearType) ==
  LET last == LastWrite(pass.actions, {setType, clearType}, key)
  IN IF last.type = "none" THEN entry[flag] ELSE last.type = setType

\* C20: after applyActions has applied a list, each attribute of each
\* target - visible, disabled, value, options, error - holds what the last
\* action of the list that writes it sets, and an attribute no action writes
\* holds what the input snapshot held.
C20_LastWriteWins ==
  (outcome = "ok" /\ call.op \in {"create", "update"}) =>
    /\ DOMAIN snapshot.sections = DOMAIN Applied.sections
    /\ DOMAIN snapshot.fields = DOMAIN Applied.fields
    /\ \A k \in DOMAIN Applied.sections :
         /\ snapshot.sections[k].visible
              = FlagAfter(Applied.sections[k], k, "visible",
                          "SHOW_SECTION", "HIDE_SECTION")
         /\ snapshot.sections[k].disabled
              = FlagAfter(Applied.sections[k], k, "disabled", "DISABLE", "ENABLE")
    /\ \A k \in DOMAIN Applied.fields :
         /\ snapshot.fields[k].visible
              = FlagAfter(Applied.fields[k], k, "visible", "SHOW_FIELD", "HIDE_FIELD")
         /\ snapshot.fields[k].disabled
              = FlagAfter(Applied.fields[k], k, "disabled", "DISABLE", "ENABLE")
         /\ LET last == LastWrite(pass.actions, {"SET_OPTIONS"}, k)
            IN snapshot.fields[k].options
                 = IF last.type = "none" THEN Applied.fields[k].options
                   ELSE last.value
         /\ LET last == LastWrite(pass.actions, {"SET_ERROR", "CLEAR_ERROR"}, k)
            IN snapshot.fields[k].error
                 = IF last.type = "none" THEN Applied.fields[k].error
                   ELSE IF last.type = "SET_ERROR" THEN last.value ELSE Undef
    /\ \A k \in DOMAIN Applied.values \cup DOMAIN snapshot.values
                  \cup {a.target : a \in Range(pass.actions)} :
         LET last == LastWrite(pass.actions, {"SET_VALUE"}, k)
         IN IF last.type = "none"
            THEN (k \in DOMAIN snapshot.values) = (k \in DOMAIN Applied.values)
                 /\ Lookup(snapshot.values, k) = Lookup(Applied.values, k)
            ELSE k \in DOMAIN snapshot.values /\ snapshot.values[k] = last.value
    /\ \A k \in DOMAIN Applied.errors \cup DOMAIN snapshot.errors
                  \cup {a.target : a \in Range(pass.actions)} :
         LET last == LastWrite(pass.actions, {"SET_ERROR", "CLEAR_ERROR"}, k)
         IN CASE last.type = "none" ->
                   (k \in DOMAIN snapshot.errors) = (k \in DOMAIN Applied.errors)
                   /\ Lookup(snapshot.errors, k) = Lookup(Applied.errors, k)
              [] last.type = "SET_ERROR" ->
                   k \in DOMAIN snapshot.errors /\ snapshot.errors[k] = last.value
              [] OTHER -> k \notin DOMAIN snapshot.errors

\* a list with two SET_VALUE actions of different values on one field, a
\* SHOW_FIELD followed by a HIDE_FIELD and a CLEAR_ERROR followed by a
\* SET_ERROR, applied: the later action of each pair shows
C20_Witness ==
  /\ outcome = "ok" /\ call.op = "update"
  /\ \E i, j \in 1..Len(pass.actions) :
       /\ i < j
       /\ pass.actions[i].type = "SET_VALUE" /\ pass.actions[j].type = "SET_VALUE"
       /\ pass.actions[i].target = pass.actions[j].target
       /\ pass.actions[i].value # pass.actions[j].value
       /\ snapshot.values[pass.actions[j].target] = pass.actions[j].value
  /\ \E i, j \in 1..Len(pass.actions) :
       /\ i < j
       /\ pass.actions[i].type = "SHOW_FIELD" /\ pass.actions[j].type = "HIDE_FIELD"
       /\ pass.actions[i].target = pass.actions[j].target
       /\ ~snapshot.fields[pass.actions[j].target].visible
  /\ \E i, j \in 1..Len(pass.actions) :
       /\ i < j
       /\ pass.actions[i].type = "CLEAR_ERROR" /\ pass.actions[j].type = "SET_ERROR"
       /\ pass.actions[i].target = pass.actions[j].target
       /\ snapshot.errors[pass.actions[j].target] = pass.actions[j].value

\* C21: after createSnapshot and after every updateSnapshot, each field with
\* a ui entry has errors[f] equal to ui.fields[f].error: the same message, or
\* both undefined.
C21_ErrorSync ==
  outcome = "ok" =>
    \A f \in DOMAIN snapshot.fields :
      Lookup(snapshot.errors, f) = snapshot.fields[f].error

\* a pass has set an error on a field with a ui entry, in a snapshot that
\* already held an inline error
C21_Witness ==
  /\ outcome = "ok" /\ call.op = "update"
  /\ \E f \in DOMAIN snapshot.fields :
       /\ f \in DOMAIN snapshot.errors /\ snapshot.errors[f] # Undef
       /\ snapshot.fields[f].error = snapshot.errors[f]
       /\ \E i \in 1..Len(pass.actions) :
            pass.actions[i].type = "SET_ERROR" /\ pass.actions[i].target = f
  /\ \E g \in DOMAIN before.fields :
       /\ before.fields[g].error # Undef

\* the value an object of the probe's context holds under "k"
Held(store) == Lookup(probe.context[store], "k")
\* the same for context.params, which may be absent
HeldParams == IF probe.context.hasParams THEN Held("params") ELSE Undef

\* C22: {var: 'globals.k'} evaluates to context.globals[k] and
\* {var: 'params.k'} to context.params[k], whatever the other two objects
\* hold; an unprefixed k evaluates to data[k] if that is defined, else to
\* globals[k] if that is defined, else to params[k].
C22_VariableResolution ==
  (probe.kind = "evaluate" /\ probe.done /\ probe.expr.e = "var") =>
    CASE probe.expr.p = <<"globals", "k">> -> probe.result = Held("globals")
      [] probe.expr.p = <<"params", "k">> -> probe.result = HeldParams
      [] OTHER ->
           probe.result = (IF Held("data") # Undef THEN Held("data")
                           ELSE IF Held("globals") # Undef THEN Held("globals")
                           ELSE HeldParams)

\* an unprefixed reference was evaluated where a field value shadows a
\* global of another value
C22_Witness ==
  /\ probe.kind = "evaluate" /\ probe.done /\ probe.expr = Var(<<"k">>)
  /\ Held("data") # Undef /\ Held("globals") # Undef
  /\ Held("data") # Held("globals")
  /\ probe.result = Held("data")

\* the probe evaluated a comparison of two operands
Compared ==
  /\ probe.kind = "evaluate" /\ probe.done /\ probe.expr.e = "op"
  /\ probe.expr.o \in {">", ">=", "<", "<="}
\* the evaluated operand i of the probe's comparison
Operand(i) == evaluate(probe.expr.x.items[i], probe.context)

\* C23: a comparison with >, >=, < or <= of two operands that both convert
\* to numbers is the comparison of the converted numbers, and otherwise the
\* comparison of the operands as they are; so null and '' compare as 0 and
\* a numeric string as its number.
C23_NumericCoercion ==
  Compared =>
    LET a == Operand(1)
        b == Operand(2)
        o == probe.expr.o
    IN /\ probe.result =
            Bool(IF ~IsNaN(a) /\ ~IsNaN(b)
                 THEN Compare(o, ToNumber(a), ToNumber(b))
                 ELSE PrimitiveCompare(o, a, b))
       /\ (a \in {Null, Str("")} /\ b.t = "num") =>
            probe.result = Bool(Compare(o, 0, b.n))
       /\ (a = Str("18") /\ b.t = "num") =>
            probe.result = Bool(Compare(o, 18, b.n))
       /\ (a = Str("2") /\ b = Str("18")) =>
            probe.result = Bool(Compare(o, 2, 18))

\* '2' >= '18' was evaluated: false as numbers, true as strings
C23_Witness ==
  /\ Compared /\ probe.expr.o = ">="
  /\ Operand(1) = Str("2") /\ Operand(2) = Str("18")
  /\ probe.result = Bool(FALSE)

\* C24: a field without defaultValue starts as false when its type is
\* checkbox or switch, as an empty array when it is multi-select,
\* checkbox-group or table, as null when it is number and as the empty
\* string otherwise; a field with a defaultValue starts with that value.
C24_InitialValues ==
  (probe.kind = "initial" /\ probe.done) =>
    LET field == probe.field
        value == Lookup(probe.result, field.id)
    IN /\ field.id \in DOMAIN probe.result
       /\ value =
            IF field.defaultValue # Undef THEN field.defaultValue
            ELSE CASE field.type \in {"checkbox", "switch"} -> Bool(FALSE)
                   [] field.type \in {"multi-select", "checkbox-group", "table"} ->
                        EmptyArr
                   [] field.type = "number" -> Null
                   [] OTHER -> Str("")

\* C30: not, empty and count give the same result on an operand wrapped in
\* a one-element list as on the bare operand; {not: [e]} is the negation of
\* the truthiness of e.
C30_SingleOperandShape ==
  (/\ probe.kind = "evaluate" /\ probe.done /\ probe.expr.e = "op"
   /\ probe.expr.o \in {"not", "empty", "count"}
   /\ probe.expr.x.e = "list" /\ Len(probe.expr.x.items) = 1) =>
    LET e == probe.expr.x.items[1]
    IN /\ probe.result = evaluate(Op(probe.expr.o, e), probe.context)
       /\ probe.expr.o = "not" =>
            probe.result = Bool(~Truthy(evaluate(e, probe.context)))

\* the rule ids the last call's pass was given, and those it evaluated
Candidates ==
  IF call.op = "create" THEN deps.ruleOrder ELSE getRulesForField(call.field, deps)
EvaluatedIds == [i \in 1..Len(pass.evaluated) |-> pass.evaluated[i].id]

C28_UpdateIdempotence ==
  (outcome = "ok" /\ call.op = "update") =>
    LET again == updateSnapshot(snapshot, call.field, call.value, Globals, deps)
    IN ~again.threw /\ Returned(again) = snapshot

\* C26 (under SpecRendererFair): after a user's edit the value-sync effect
\* reaches a run in which no watched value differs from the value of the
\* stored snapshot, in every schema.
C26_SyncQuiescence == Pending ~> ~Pending

\* the last updateSnapshot call was for the user's edit, and a rule of its
\* pass wrote the value the stored snapshot holds for another field g
RuleWrote(g) ==
  /\ outcome = "ok" /\ call.op = "update"
  /\ call.field = form.edited /\ g # form.edited
  /\ \E act \in Range(pass.actions) :
       /\ act.type = "SET_VALUE" /\ act.target = g
       /\ Lookup(snapshot.values, g) = act.value

\* C27 (under SpecRenderer): a value a rule wrote to field g on the user's
\* edit of another field stays in the stored snapshot until the user edits g
\* or a rule writes g again: no run of the effect replaces it with the value
\* the form holds for g.
C27_RuleWritesPersist ==
  [][\A g \in DOMAIN snapshot.values :
       RuleWrote(g) =>
         \/ Lookup(snapshot'.values, g) = snapshot.values[g]
         \/ form'.edited = g
         \/ \E act \in Range(pass'.actions) :
              act.type = "SET_VALUE" /\ act.target = g]_vars

\* C29 (under SpecRenderer): while a section is visible, currentSectionIndex
\* is an index of visibleSections, so the current section is defined.
C29_IndexInRange ==
  (outcome = "ok" /\ Len(visibleSections) >= 1) =>
    /\ 0 <= form.currentSectionIndex
    /\ form.currentSectionIndex < Len(visibleSections)

====
